---- MODULE Spec2Model ----
(***************************************************************************)
(* A model of kdcproxy: the realm-to-server resolver (kdcproxy/config),    *)
(* the working-server memo and the forwarding engine (kdcproxy/__init__).  *)
(*                                                                         *)
(* Conventions.  A Python call that may raise is modelled by an operator   *)
(* returning an outcome record [exc, val]: exc = "none" and val the        *)
(* returned value, or exc the name of the exception that leaves the call.  *)
(* A Python dict is a TLA+ function whose DOMAIN is the set of its keys.   *)
(* A section or realm name is a record [stars, labels] standing for the    *)
(* string made of `stars` leading '*' characters followed by the labels    *)
(* joined with '.', so that split('.') and '.'.join are computed on it.    *)
(***************************************************************************)
EXTENDS Integers, Sequences, FiniteSets, TLC

VARIABLES
    cp,             \* the parsed INI file handed to KDCProxyConfig.__init__
    config,         \* KDCProxyConfig.__config
    extra_configs,  \* MetaResolver.__extra_configs, in registration order
    zone,           \* what the DNS currently answers to SRV queries
    lookup_res,     \* the outcome of the last MetaResolver.lookup call
    good_servers,   \* WorkingServerMap.__good_servers
    pc,             \* where Application.__call__ stands
    env,            \* the WSGI environment of the call, and whether its
                    \* wsgi.input has been read
    pr,             \* the parsed request of the call
    server_list,    \* the candidates, reordered
    sidx,           \* the position of `server` in server_list
    addrs,          \* the sorted addresses of the server
    aidx,           \* the position of `addr` in addrs + (None,)
    socks,          \* every socket the call created, in creation order
    wsocks,         \* the list wsocks
    rsocks,         \* the list rsocks
    read_buffers,   \* __await_reply's dict socket -> bytes buffered
    extra,          \* __await_reply's extra seconds
    pend,           \* what select returned and the loops have yet to visit
    wire,           \* the socket and bytes of the sendall or recv the step
                    \* made, and whether the sendall was not the socket's
                    \* first
    reply,          \* the reply of the call, None until there is one
    response,       \* what the call handed to start_response, or the
                    \* exception that left it
    worked,         \* history: per realm, the server that was being tried
                    \* when the latest finished call for the realm got its
                    \* reply, None when that call got none
    memo_call,      \* the WorkingServerMap call made on its own, its result
    threads,        \* the WorkingServerMap calls of concurrent requests
    received,       \* history of __handle_recv called on its own: per
                    \* socket, the chunks recv returned since the socket's
                    \* last reply, and whether the last of them gave one
    api_call        \* the method of KDCProxyConfig or DNSResolver, or
                    \* codec.decode, called on its own: its arguments and
                    \* its outcome; None before the first call

rvars == <<cp, config, extra_configs, zone, lookup_res>>

\* The variables of one call of the application.
cvars == <<pc, env, pr, server_list, sidx, addrs, aidx, socks, wsocks, rsocks,
           read_buffers, extra, pend, wire, reply, response>>

\* The variables of WorkingServerMap called on its own and concurrently,
\* and of __handle_recv and the library's other operations called on their
\* own.
mvars == <<memo_call, threads, received, api_call>>

vars == <<rvars, good_servers, cvars, worked, mvars>>

----------------------------------------------------------------------------
(* Outcomes of calls *)

Ok(v) == [exc |-> "none", val |-> v]

Raise(e) == [exc |-> e, val |-> <<>>]

----------------------------------------------------------------------------
(* Names, URIs *)

Name(s, l) == [stars |-> s, labels |-> l]

\* Python's None passed as a realm: no string splits into zero labels.
NoneRealm == Name(0, <<>>)

\* A URI scheme://host[:port]; scheme is held as scheme.split("+", 1), and
\* port 0 stands for a URI without a port.
URI(scheme, host, port) == [scheme |-> scheme, host |-> host, port |-> port]

SRV_KRB == "kerberos"

SRV_KPWD == "kpasswd"

SRV_KPWD_ADM == "kerberos-adm"

RECURSIVE UniqueFrom(_, _)
UniqueFrom(items, seen) ==
    IF items = <<>> THEN <<>>
    ELSE IF Head(items) \in seen THEN UniqueFrom(Tail(items), seen)
    ELSE <<Head(items)>> \o UniqueFrom(Tail(items), seen \cup {Head(items)})

\* MetaResolver.__unique: duplicates removed, first occurrences kept in order.
Unique(items) == UniqueFrom(items, {})

----------------------------------------------------------------------------
(* KDCProxyConfig *)

GLOBAL == Name(0, <<"global">>)

GLOBAL_PARAMS == [dns_realm_discovery |-> FALSE]

GENERAL_PARAMS == [use_dns |-> TRUE, silence_port_warn |-> FALSE]

\* configparser's getboolean on the tokens the file may hold.
getboolean(token) == token \in {"1", "yes", "true", "on"}

\* KDCProxyConfig.__get_cfg_param: the typed value of a key of a section,
\* or "absent" (Python's None) when the section has no such key.
HasOption(file, section, param) == param \in DOMAIN file[section]

\* The keys __init__ stores for one section.
SectionKeys(file, section) ==
    {p \in DOMAIN GENERAL_PARAMS : HasOption(file, section, p)}
    \cup (IF section = GLOBAL
          THEN {p \in DOMAIN GLOBAL_PARAMS : HasOption(file, section, p)}
          ELSE IF section.stars = 0
          THEN {s \in {SRV_KRB, SRV_KPWD} :
                    HasOption(file, section, s) /\ file[section][s] # <<>>}
          ELSE {})

\* KDCProxyConfig.__init__: the dict built from the sections of the file.
\* A server list is held in the file as the sequence of its
\* whitespace-separated words.
KDCProxyConfig_init(file) ==
    [section \in DOMAIN file |->
        [p \in SectionKeys(file, section) |->
            IF p \in {SRV_KRB, SRV_KPWD}
            THEN file[section][p]
            ELSE getboolean(file[section][p])]]

\* A check that lets every name pass.
global_forbidden_never(realm) == FALSE

\* KDCProxyConfig.__global_forbidden: whether it raises.
global_forbidden(realm) == realm = GLOBAL

\* A lookup that returns the kerberos servers whatever is asked for.
KDCProxyConfig_lookup_kerberos(cfg, realm, kpasswd) ==
    IF global_forbidden(realm) THEN Raise("ValueError")
    ELSE IF realm \in DOMAIN cfg /\ SRV_KRB \in DOMAIN cfg[realm]
    THEN Ok(cfg[realm][SRV_KRB])
    ELSE Ok(<<>>)

KDCProxyConfig_lookup(cfg, realm, kpasswd) ==
    IF global_forbidden(realm) THEN Raise("ValueError")
    ELSE LET service == IF kpasswd THEN SRV_KPWD ELSE SRV_KRB
         IN  IF realm \in DOMAIN cfg /\ service \in DOMAIN cfg[realm]
             THEN Ok(cfg[realm][service])
             ELSE Ok(<<>>)

\* realm.split('.') and, for index i (1-based), '*' + '.'.join(labels[i:]).
Rule(realm, i) ==
    Name(IF i = 1 THEN realm.stars + 1 ELSE 1,
         SubSeq(realm.labels, i, Len(realm.labels)))

\* A check that knows the sections named as the realm only.
KDCProxyConfig_realm_configured_exact(cfg, realm) ==
    IF global_forbidden(realm) THEN Raise("ValueError")
    ELSE Ok(realm \in DOMAIN cfg)

KDCProxyConfig_realm_configured(cfg, realm) ==
    IF global_forbidden(realm) THEN Raise("ValueError")
    ELSE Ok(\/ realm \in DOMAIN cfg
            \/ \E i \in 1..Len(realm.labels) : Rule(realm, i) \in DOMAIN cfg)

\* The most specific rule of the realm that has a section, if it defines
\* the parameter.
RulesWith_first(cfg, realm, param) ==
    {i \in 1..Len(realm.labels) :
        /\ Rule(realm, i) \in DOMAIN cfg
        /\ param \in DOMAIN cfg[Rule(realm, i)]
        /\ \A j \in 1..(i - 1) : Rule(realm, j) \notin DOMAIN cfg}

\* The rules of the realm, most specific first, that define the parameter.
RulesWith(cfg, realm, param) ==
    {i \in 1..Len(realm.labels) :
        Rule(realm, i) \in DOMAIN cfg /\ param \in DOMAIN cfg[Rule(realm, i)]}

Min(S) == CHOOSE x \in S : \A y \in S : x <= y

\* A param that asks the global section before the wildcard sections.
KDCProxyConfig_param_global_first(cfg, realm, param) ==
    IF global_forbidden(realm) THEN Raise("ValueError")
    ELSE IF realm # NoneRealm /\ realm \in DOMAIN cfg
            /\ param \in DOMAIN cfg[realm]
    THEN Ok(cfg[realm][param])
    ELSE IF GLOBAL \in DOMAIN cfg /\ param \in DOMAIN cfg[GLOBAL]
    THEN Ok(cfg[GLOBAL][param])
    ELSE IF realm # NoneRealm /\ RulesWith(cfg, realm, param) # {}
    THEN Ok(cfg[Rule(realm, Min(RulesWith(cfg, realm, param)))][param])
    ELSE IF param \in DOMAIN GENERAL_PARAMS THEN Ok(GENERAL_PARAMS[param])
    ELSE IF param \in DOMAIN GLOBAL_PARAMS THEN Ok(GLOBAL_PARAMS[param])
    ELSE Raise("ValueError")

KDCProxyConfig_param(cfg, realm, param) ==
    IF global_forbidden(realm) THEN Raise("ValueError")
    ELSE IF realm # NoneRealm /\ realm \in DOMAIN cfg
            /\ param \in DOMAIN cfg[realm]
    THEN Ok(cfg[realm][param])
    ELSE IF realm # NoneRealm /\ RulesWith(cfg, realm, param) # {}
    THEN Ok(cfg[Rule(realm, Min(RulesWith(cfg, realm, param)))][param])
    ELSE IF GLOBAL \in DOMAIN cfg /\ param \in DOMAIN cfg[GLOBAL]
    THEN Ok(cfg[GLOBAL][param])
    ELSE IF param \in DOMAIN GENERAL_PARAMS THEN Ok(GENERAL_PARAMS[param])
    ELSE IF param \in DOMAIN GLOBAL_PARAMS THEN Ok(GLOBAL_PARAMS[param])
    ELSE Raise("ValueError")

----------------------------------------------------------------------------
(* MITConfig: [dns, realms], realms a dict realm -> key -> list of URIs *)

MITConfig_lookup(c, realm, kpasswd) ==
    LET rconf == IF realm \in DOMAIN c.realms THEN c.realms[realm]
                 ELSE << >>
        get(k) == IF k \in DOMAIN rconf THEN rconf[k] ELSE <<>>
    IN  IF kpasswd THEN get("kpasswd_server") \o get("admin_server")
        ELSE get("kdc")

\* MITConfig defines no realm_configured: the call runs IConfig's.
IConfig_realm_configured(c, realm) == Raise("NotImplementedError")

----------------------------------------------------------------------------
(* DNSResolver *)

Query(service, protocol, realm) ==
    [service |-> service, protocol |-> protocol, realm |-> realm]

RECURSIVE InsertByPriority(_, _)
InsertByPriority(e, sorted) ==
    IF sorted = <<>> THEN <<e>>
    ELSE IF e.priority < Head(sorted).priority THEN <<e>> \o sorted
    ELSE <<Head(sorted)>> \o InsertByPriority(e, Tail(sorted))

RECURSIVE SortedByPriority(_)
\* sorted(reply, key=lambda r: r.priority): stable, ascending.
SortedByPriority(answer) ==
    IF answer = <<>> THEN <<>>
    ELSE InsertByPriority(answer[Len(answer)],
                          SortedByPriority(SubSeq(answer, 1, Len(answer) - 1)))

\* DNSResolver.__dns: the (host, port) pairs of the answer to one query; a
\* query that fails is answered by the empty list.
DNSResolver_dns(z, service, protocol, realm) ==
    LET sorted == SortedByPriority(z[service][protocol])
    IN  [i \in 1..Len(sorted) |-> <<sorted[i].target, sorted[i].port>>]

\* A lookup that names its URIs after the service it found them under.
DNSResolver_protocol_named(z, realm, kpasswd, protocol) ==
    LET service  == IF kpasswd THEN SRV_KPWD ELSE SRV_KRB
        first    == DNSResolver_dns(z, service, protocol, realm)
        fallback == first = <<>> /\ kpasswd
        servers  == IF fallback
                    THEN DNSResolver_dns(z, SRV_KPWD_ADM, protocol, realm)
                    ELSE first
    IN  [val |-> [i \in 1..Len(servers) |->
                     URI(<<IF fallback THEN SRV_KPWD_ADM ELSE service>>,
                         servers[i][1], servers[i][2])],
         queries |-> <<Query(service, protocol, realm)>> \o
                     (IF fallback
                      THEN <<Query(SRV_KPWD_ADM, protocol, realm)>>
                      ELSE <<>>)]

\* One protocol of DNSResolver.lookup: the URIs and the queries issued.
DNSResolver_protocol(z, realm, kpasswd, protocol) ==
    LET service  == IF kpasswd THEN SRV_KPWD ELSE SRV_KRB
        first    == DNSResolver_dns(z, service, protocol, realm)
        fallback == first = <<>> /\ kpasswd
        servers  == IF fallback
                    THEN DNSResolver_dns(z, SRV_KPWD_ADM, protocol, realm)
                    ELSE first
    IN  [val |-> [i \in 1..Len(servers) |->
                     URI(<<service>>, servers[i][1], servers[i][2])],
         queries |-> <<Query(service, protocol, realm)>> \o
                     (IF fallback
                      THEN <<Query(SRV_KPWD_ADM, protocol, realm)>>
                      ELSE <<>>)]

\* A lookup that asks for udp first.
DNSResolver_lookup_udp_first(z, realm, kpasswd) ==
    LET tcp == DNSResolver_protocol(z, realm, kpasswd, "tcp")
        udp == DNSResolver_protocol(z, realm, kpasswd, "udp")
    IN  [val |-> udp.val \o tcp.val, queries |-> udp.queries \o tcp.queries]

\* DNSResolver.lookup: the URIs yielded and the queries issued, in order.
DNSResolver_lookup(z, realm, kpasswd) ==
    LET tcp == DNSResolver_protocol(z, realm, kpasswd, "tcp")
        udp == DNSResolver_protocol(z, realm, kpasswd, "udp")
    IN  [val |-> tcp.val \o udp.val, queries |-> tcp.queries \o udp.queries]

----------------------------------------------------------------------------
(* MetaResolver *)

RECURSIVE AnyExtraConfigured(_, _)
\* The loop of MetaResolver.__realm_configured over the extra configs.
AnyExtraConfigured(extras, realm) ==
    IF extras = <<>> THEN Ok(FALSE)
    ELSE LET r == IConfig_realm_configured(Head(extras), realm)
         IN  IF r.exc # "none" THEN r
             ELSE IF r.val THEN Ok(TRUE)
             ELSE AnyExtraConfigured(Tail(extras), realm)

MetaResolver_realm_configured(cfg, extras, realm) ==
    LET r == KDCProxyConfig_realm_configured(cfg, realm)
    IN  IF r.exc # "none" THEN r
        ELSE IF r.val THEN Ok(TRUE)
        ELSE AnyExtraConfigured(extras, realm)

MetaResolver_dns_discovery_allowed(cfg, extras, realm) ==
    LET rc == MetaResolver_realm_configured(cfg, extras, realm)
        drd == KDCProxyConfig_param(cfg, NoneRealm, "dns_realm_discovery")
        use == KDCProxyConfig_param(cfg, realm, "use_dns")
    IN  IF rc.exc # "none" THEN rc
        ELSE IF ~rc.val /\ drd.exc # "none" THEN drd
        ELSE IF ~(rc.val \/ drd.val) THEN Ok(FALSE)
        ELSE use

RECURSIVE FirstExtraServers(_, _, _)
\* The loop of MetaResolver.lookup over the extra configs.
FirstExtraServers(extras, realm, kpasswd) ==
    IF extras = <<>> THEN <<>>
    ELSE LET servers == Unique(MITConfig_lookup(Head(extras), realm, kpasswd))
         IN  IF servers # <<>> THEN servers
             ELSE FirstExtraServers(Tail(extras), realm, kpasswd)

\* MetaResolver.lookup: [exc, val, queries], queries the SRV queries issued.
MetaResolver_lookup(cfg, extras, z, realm, kpasswd) ==
    LET own == KDCProxyConfig_lookup(cfg, realm, kpasswd)
        others == FirstExtraServers(extras, realm, kpasswd)
        allowed == MetaResolver_dns_discovery_allowed(cfg, extras, realm)
        dns == DNSResolver_lookup(z, realm, kpasswd)
    IN  IF own.exc # "none"
        THEN [exc |-> own.exc, val |-> <<>>, queries |-> <<>>]
        ELSE IF Unique(own.val) # <<>>
        THEN [exc |-> "none", val |-> Unique(own.val), queries |-> <<>>]
        ELSE IF others # <<>>
        THEN [exc |-> "none", val |-> others, queries |-> <<>>]
        ELSE IF allowed.exc # "none"
        THEN [exc |-> allowed.exc, val |-> <<>>, queries |-> <<>>]
        ELSE IF allowed.val
        THEN [exc |-> "none", val |-> Unique(dns.val), queries |-> dns.queries]
        ELSE [exc |-> "none", val |-> <<>>, queries |-> <<>>]

----------------------------------------------------------------------------
(* WorkingServerMap *)

Range(seq) == {seq[i] : i \in 1..Len(seq)}

\* list.remove(x): the list without the first occurrence of x.
RemoveFirst(seq, x) ==
    LET i == Min({j \in 1..Len(seq) : seq[j] = x})
    IN  SubSeq(seq, 1, i - 1) \o SubSeq(seq, i + 1, Len(seq))

\* list.remove(x) as a call: ValueError when x is not in the list.
ListRemove(seq, x) ==
    IF x \in Range(seq) THEN Ok(RemoveFirst(seq, x)) ELSE Raise("ValueError")

\* A mark_working that remembers nothing.
mark_working_forgetful(good, realm, server) == good

\* A mark_broken that forgets the realm's server whichever server failed.
mark_broken_any(good, realm, server) ==
    [r \in DOMAIN good \ {realm} |-> good[r]]

\* A reorder_servers that puts the remembered server first and leaves it
\* where it was.
reorder_servers_copying(good, realm, servers) ==
    IF realm \in DOMAIN good /\ good[realm] \in Range(servers)
    THEN Ok(<<good[realm]>> \o servers)
    ELSE IF realm \in DOMAIN good THEN Raise("ValueError")
    ELSE Ok(servers)

mark_working(good, realm, server) ==
    [r \in DOMAIN good \cup {realm} |-> IF r = realm THEN server ELSE good[r]]

mark_broken(good, realm, server) ==
    IF realm \in DOMAIN good /\ good[realm] = server
    THEN [r \in DOMAIN good \ {realm} |-> good[r]]
    ELSE good

reorder_servers(good, realm, servers) ==
    IF realm \in DOMAIN good
    THEN LET new_list == ListRemove(servers, good[realm])
         IN  IF new_list.exc # "none" THEN new_list
             ELSE Ok(<<good[realm]>> \o new_list.val)
    ELSE Ok(servers)

----------------------------------------------------------------------------
(* Bytes, framing, handle_recv *)

\* Python's None and a value that is not None.
None == <<>>

Some(v) == <<v>>

\* struct.pack("!I", n)
PackU32(n) ==
    <<(n \div 16777216) % 256, (n \div 65536) % 256, (n \div 256) % 256, n % 256>>

\* struct.unpack("!I", b) of four bytes
UnpackU32(b) == b[1] * 16777216 + b[2] * 65536 + b[3] * 256 + b[4]

\* A DER tag, length and value
DerTLV(tag, content) ==
    LET n == Len(content)
        length == IF n < 128 THEN <<n>>
                  ELSE IF n < 256 THEN <<129, n>>
                  ELSE IF n < 65536 THEN <<130, n \div 256, n % 256>>
                  ELSE <<131, n \div 65536, (n \div 256) % 256, n % 256>>
    IN  <<tag>> \o length \o content

\* codec.encode: SEQUENCE { [0] EXPLICIT OCTET STRING data }
codec_encode(data) == DerTLV(48, DerTLV(160, DerTLV(4, data)))

\* The DER decoder on the head of `data`: one tag byte, one length byte
\* (the model's messages are shorter than 128 bytes), the content and what
\* follows it.  (The set binds the bytes to d, so that they are computed
\* once; so do the sets of the operators below.)
ReadTLV(data) ==
    CHOOSE tlv \in
        { IF Len(d) < 2 \/ d[2] >= 128 \/ Len(d) < 2 + d[2]
          THEN [ok |-> FALSE, tag |-> 0, content |-> <<>>, rest |-> <<>>]
          ELSE [ok |-> TRUE, tag |-> d[1],
                content |-> SubSeq(d, 3, 2 + d[2]),
                rest |-> SubSeq(d, 3 + d[2], Len(d))] : d \in {data} } : TRUE

\* decoder.decode(data, asn1Spec=T()) for an explicitly tagged type T: the
\* tag `outer` around the tag `inner`; [ok, content, rest], rest being the
\* bytes the decoder returns as not consumed.  The inner types are
\* SEQUENCEs without components; the model's have no content.
Explicit(outer, inner, data) ==
    CHOOSE decoded \in
        { LET i == ReadTLV(o.content)
          IN  [ok |-> /\ o.ok /\ o.tag = outer
                      /\ i.ok /\ i.tag = inner /\ i.rest = <<>>,
               content |-> i.content, rest |-> o.rest] :
            o \in {ReadTLV(data)} } : TRUE

RECURSIVE RealmOf(_)
\* str(realm, "UTF8"), as the name the resolver works on.  On the wire of
\* the model every label of a realm is written as its first letter, the
\* labels joined by "." (46).
RealmOf(octets) ==
    IF octets = <<>> THEN NoneRealm
    ELSE LET letters == (69 :> "EXAMPLE") @@ (67 :> "COM")
                        @@ (79 :> "OTHER") @@ (103 :> "global")
             label == IF Head(octets) \in DOMAIN letters
                      THEN letters[Head(octets)] ELSE "?"
             after == IF Len(octets) > 1 /\ octets[2] = 46
                      THEN SubSeq(octets, 3, Len(octets)) ELSE Tail(octets)
         IN  Name(0, <<label>> \o RealmOf(after).labels)

\* decoder.decode(data, asn1Spec=asn1.ProxyMessage()): SEQUENCE { [0]
\* OCTET STRING message, [1] GeneralString realm OPTIONAL, [2] INTEGER flags
\* OPTIONAL }; the value holds the message, the realm if there is one, and
\* the bytes after the SEQUENCE.
ProxyMessage_decode(data) ==
    CHOOSE decoded \in
        { LET m == Explicit(160, 4, o.content)
              r == Explicit(161, 27, m.rest)
              afterR == IF r.ok THEN r.rest ELSE m.rest
              f == Explicit(162, 2, afterR)
              afterF == IF f.ok THEN f.rest ELSE afterR
          IN  IF o.ok /\ o.tag = 48 /\ m.ok /\ afterF = <<>>
                 /\ (f.ok => f.content # <<>>)
              THEN Ok([message |-> m.content,
                       realm |-> IF r.ok THEN Some(r.content) ELSE None,
                       err |-> o.rest])
              ELSE Raise("PyAsn1Error") : o \in {ReadTLV(data)} } : TRUE

\* A parsed request: the realm, the class that parsed it, the inner
\* message with its 4-byte length prefix.
ProxyRequest(realm, kind, request) ==
    [realm |-> realm, kind |-> kind, request |-> request]

\* raise ParsingError(message)
ParsingError(message) == [exc |-> "ParsingError", val |-> message]

\* ProxyRequest.__init__
ProxyRequest_init(realm, kind, request, err) ==
    IF Len(err) > 0 THEN ParsingError("request has extra bytes.")
    ELSE Ok(ProxyRequest(realm, kind, request))

\* A password change taken for a ticket request.
KPASSWDProxyRequest_init_plain(realm, request) ==
    Ok(ProxyRequest(realm, "AS", request))

\* KPASSWDProxyRequest.__init__: the err argument and the err of the
\* AP-REQ are overwritten by the err of the KRB-PRIV; the request made
\* carries the version.
KPASSWDProxyRequest_init(realm, request) ==
    LET n == Len(request)
        length == request[5] * 256 + request[6]
        version == request[7] * 256 + request[8]
        aplen == request[9] * 256 + request[10]
        apreq == Explicit(110, 48, SubSeq(request, 11, aplen + 10))
        krbpriv == Explicit(117, 48, SubSeq(request, aplen + 11, n))
    IN  IF length # n - 4
        THEN ParsingError("Parsing the KPASSWD request length failed.")
        ELSE IF version # 1 /\ version # 65408
        THEN ParsingError("The KPASSWD request is an incorrect version.")
        ELSE IF aplen > n - 10
        THEN ParsingError("The KPASSWD request appears to be truncated.")
        ELSE IF ~apreq.ok \/ ~krbpriv.ok THEN Raise("PyAsn1Error")
        ELSE IF ProxyRequest_init(realm, "KPASSWD", request,
                                  krbpriv.rest).exc # "none"
        THEN ProxyRequest_init(realm, "KPASSWD", request, krbpriv.rest)
        ELSE Ok([realm |-> realm, kind |-> "KPASSWD", request |-> request,
                 version |-> version])

\* The classes in the order of the protocol's exchanges.
Subclasses_by_exchange == <<"AS", "TGS", "KPASSWD">>

\* ProxyRequest.__subclasses__(): the classes in the order of their
\* definition.
Subclasses == <<"TGS", "AS", "KPASSWD">>

RECURSIVE TrySubclasses(_, _, _)
\* The loop of ProxyRequest.parse over the subclasses, from the i-th on:
\* decoder.decode(request[subcls.OFFSET:], asn1Spec=subcls.TYPE()) and the
\* constructor, a PyAsn1Error of either going on to the next subclass.
\* [exc, val, tried], tried being the subclasses whose decoding was
\* attempted.
TrySubclasses(realm, request, i) ==
    IF i > Len(Subclasses)
    THEN [exc |-> "ParsingError", val |-> "Invalid request.",
          tried |-> Subclasses]
    ELSE LET subcls == Subclasses[i]
             TYPE == IF subcls = "TGS" THEN 108
                     ELSE IF subcls = "AS" THEN 106 ELSE 110
             OFFSET == IF subcls = "KPASSWD" THEN 10 ELSE 4
             decoded == Explicit(TYPE, 48,
                                 SubSeq(request, OFFSET + 1, Len(request)))
             made == IF subcls = "KPASSWD"
                     THEN KPASSWDProxyRequest_init(realm, request)
                     ELSE ProxyRequest_init(realm, subcls, request,
                                            decoded.rest)
         IN  IF decoded.ok /\ made.exc # "PyAsn1Error"
             THEN [exc |-> made.exc, val |-> made.val,
                   tried |-> SubSeq(Subclasses, 1, i)]
             ELSE TrySubclasses(realm, request, i + 1)

\* A parse that does not compare the length prefix with the message.
ProxyRequest_parse_unframed(data) ==
    CHOOSE parsed \in
        { LET before(r) == [exc |-> r.exc, val |-> r.val, tried |-> <<>>]
              request == m.val.message
          IN  IF m.exc # "none" THEN before(Raise("PyAsn1Error"))
              ELSE IF m.val.err # <<>>
              THEN before(ParsingError("Invalid request."))
              ELSE IF m.val.realm = None THEN before(Raise("PyAsn1Error"))
              ELSE IF Len(request) < 4 THEN before(Raise("struct.error"))
              ELSE TrySubclasses(RealmOf(m.val.realm[1]), request, 1) :
            m \in {ProxyMessage_decode(data)} } : TRUE

\* codec.decode, which is ProxyRequest.parse: [exc, val, tried].
ProxyRequest_parse(data) ==
    CHOOSE parsed \in
        { LET before(r) == [exc |-> r.exc, val |-> r.val, tried |-> <<>>]
              request == m.val.message
          IN  IF m.exc # "none" THEN before(Raise("PyAsn1Error"))
              ELSE IF m.val.err # <<>>
              THEN before(ParsingError("Invalid request."))
              ELSE IF m.val.realm = None THEN before(Raise("PyAsn1Error"))
              ELSE IF Len(request) < 4 THEN before(Raise("struct.error"))
              ELSE IF UnpackU32(SubSeq(request, 1, 4)) + 4 # Len(request)
              THEN before(ParsingError("Invalid request length."))
              ELSE TrySubclasses(RealmOf(m.val.realm[1]), request, 1) :
            m \in {ProxyMessage_decode(data)} } : TRUE

\* A receive that hands the datagram on as it came.
handle_recv_dgram_bare(part) == part

\* Application.__handle_recv on a datagram socket, recv returning `part`.
handle_recv_dgram(part) == PackU32(Len(part)) \o part

\* A receive that keeps, of what came before the end of the stream, the
\* last chunk only.
handle_recv_stream_last(buffers, sock, part) ==
    IF part # <<>>
    THEN [exc |-> "none", reply |-> None,
          buffers |-> [k \in DOMAIN buffers \cup {sock} |->
                          IF k = sock THEN part ELSE buffers[k]]]
    ELSE [exc |-> "none",
          reply |-> Some(IF sock \in DOMAIN buffers THEN buffers[sock]
                         ELSE <<>>),
          buffers |-> [k \in DOMAIN buffers \ {sock} |-> buffers[k]]]

\* Application.__handle_recv on a stream socket, recv returning `part`:
\* [exc, reply, buffers], exc the exception the code itself raises (it
\* raises none, whatever the chunk), reply None or Some(bytes), buffers the
\* dict afterwards.
handle_recv_stream(buffers, sock, part) ==
    LET fresh == sock \notin DOMAIN buffers
        whole == /\ fresh
                 /\ Len(part) > 4
                 /\ UnpackU32(SubSeq(part, 1, 4)) + 4 = Len(part)
        buf   == IF fresh THEN <<>> ELSE buffers[sock]
    IN  IF whole
        THEN [exc |-> "none", reply |-> Some(part), buffers |-> buffers]
        ELSE IF part # <<>>
        THEN [exc |-> "none", reply |-> None,
              buffers |-> [k \in DOMAIN buffers \cup {sock} |->
                              IF k = sock THEN buf \o part ELSE buffers[k]]]
        ELSE [exc |-> "none", reply |-> Some(buf),
              buffers |-> [k \in DOMAIN buffers \ {sock} |-> buffers[k]]]

----------------------------------------------------------------------------
(* Addresses and sockets *)

AF == [INET |-> 2, INET6 |-> 10]

SOCK == [STREAM |-> 1, DGRAM |-> 2, RAW |-> 3]

IPPROTO == [IP |-> 0, TCP |-> 6, UDP |-> 17]

SOCKTYPES == [tcp |-> SOCK.STREAM, udp |-> SOCK.DGRAM]

\* One entry of getaddrinfo's answer: (family, type, proto, '', (ip, port)),
\* the ip held as a number.
Addr(family, socktype, proto, ip) ==
    [family |-> family, socktype |-> socktype, proto |-> proto, ip |-> ip]

\* Application.__filter_addr
filter_addr(addr) ==
    /\ addr.family \in {AF.INET, AF.INET6}
    /\ addr.socktype \in {SOCK.STREAM, SOCK.DGRAM}
    /\ addr.proto \in {IPPROTO.TCP, IPPROTO.UDP}

\* sorted: insertion by the order of Python tuples on address entries.
RECURSIVE InsertAddr(_, _)
InsertAddr(a, sorted) ==
    LET b == Head(sorted)
        less ==
            \/ a.family < b.family
            \/ a.family = b.family /\ a.socktype < b.socktype
            \/ a.family = b.family /\ a.socktype = b.socktype
               /\ a.proto < b.proto
            \/ a.family = b.family /\ a.socktype = b.socktype
               /\ a.proto = b.proto /\ a.ip < b.ip
    IN  IF sorted = <<>> THEN <<a>>
        ELSE IF less THEN <<a>> \o sorted
        ELSE <<b>> \o InsertAddr(a, Tail(sorted))

RECURSIVE SortedFiltered(_)
\* tuple(sorted(filter(self.__filter_addr, addrs)))
SortedFiltered(answer) ==
    IF answer = <<>> THEN <<>>
    ELSE LET rest == SortedFiltered(SubSeq(answer, 1, Len(answer) - 1))
             last == answer[Len(answer)]
         IN  IF filter_addr(last) THEN InsertAddr(last, rest) ELSE rest

\* A scheme check that looks at the service only, not at the transport.
scheme_supported_service(scheme) == scheme[1] \in {"kerberos", "kpasswd"}

\* Whether the loop over the candidates skips a server for its scheme.
scheme_supported(scheme) ==
    /\ scheme[1] \in {"kerberos", "kpasswd"}
    /\ Len(scheme) > 1 => scheme[2] \in {"tcp", "udp"}

\* A socket: its type, the candidate it was opened for, whether it is open.
\* `sent` tells whether a sendall has gone through on it.
Socket(socktype, server) ==
    [type |-> socktype, server |-> server, open |-> TRUE, sent |-> FALSE]

\* sock.close() on each socket of a list
CloseAll(ss, list) ==
    [i \in 1..Len(ss) |-> IF i \in Range(list) THEN [ss[i] EXCEPT !.open = FALSE]
                          ELSE ss[i]]

\* The sub-list of a list at a set of positions, in the list's order.
RECURSIVE Pick(_, _)
Pick(list, positions) ==
    IF list = <<>> THEN <<>>
    ELSE LET front == Pick(SubSeq(list, 1, Len(list) - 1), positions)
         IN  IF Len(list) \in positions THEN Append(front, list[Len(list)])
             ELSE front

\* A resend loop that moves no socket.
ResendNone(ss, todo, lists) == lists

RECURSIVE ResendDgrams(_, _, _)
\* The loop "Resend packets to UDP servers" over tuple(rsocks):
\* [rsocks, wsocks] afterwards.
ResendDgrams(ss, todo, lists) ==
    IF todo = <<>> THEN lists
    ELSE IF ss[Head(todo)].type = SOCK.DGRAM
    THEN ResendDgrams(ss, Tail(todo),
                      [rsocks |-> RemoveFirst(lists.rsocks, Head(todo)),
                       wsocks |-> Append(lists.wsocks, Head(todo))])
    ELSE ResendDgrams(ss, Tail(todo), lists)

----------------------------------------------------------------------------
(* The configurations and DNS answers the model ranges over *)

MaxSections == 2

MaxAdapters == 2

EXAMPLE_COM == Name(0, <<"EXAMPLE", "COM">>)

FOO_EXAMPLE_COM == Name(0, <<"FOO", "EXAMPLE", "COM">>)

MYEXAMPLE_COM == Name(0, <<"MYEXAMPLE", "COM">>)

Realms == {EXAMPLE_COM, FOO_EXAMPLE_COM, MYEXAMPLE_COM, GLOBAL}

K1 == URI(<<"kerberos">>, "k1", 88)

K2 == URI(<<"kerberos", "udp">>, "k2", 0)

K3 == URI(<<"kerberos">>, "k3", 88)

P1 == URI(<<"kpasswd">>, "p1", 464)

SectionBodies ==
    { << >>,
      [use_dns |-> "off"],
      [kerberos |-> <<K1, K2, K1>>, kpasswd |-> <<P1>>],
      [use_dns |-> "true", kerberos |-> <<K2>>] }

GlobalBodies ==
    { << >>,
      [use_dns |-> "off"],
      [dns_realm_discovery |-> "yes"],
      [dns_realm_discovery |-> "yes", use_dns |-> "off"],
      [dns_realm_discovery |-> "off", use_dns |-> "true"],
      [kerberos |-> <<K3>>, kpasswd |-> <<P1>>] }

\* The files: at most MaxSections realm sections b, named EXAMPLE.COM,
\* *EXAMPLE.COM or *COM, and a global section g or none.
ConfigFiles ==
    LET SectionNames ==
            {EXAMPLE_COM, Name(1, <<"EXAMPLE", "COM">>), Name(1, <<"COM">>)}
        FileOf(b, g) ==
            [s \in DOMAIN b \cup (IF g = <<>> THEN {} ELSE {GLOBAL}) |->
                IF s = GLOBAL THEN g[1] ELSE b[s]]
    IN  UNION { UNION { { FileOf(b, g) :
                          g \in {<<>>} \cup {<<x>> : x \in GlobalBodies} } :
                        b \in [D -> SectionBodies] } :
                D \in {D \in SUBSET SectionNames :
                          Cardinality(D) <= MaxSections} }

MITConfigs ==
    { [dns |-> TRUE,
       realms |-> (EXAMPLE_COM :>
                     [kdc |-> <<K3, K3>>,
                      admin_server |-> <<URI(<<"kpasswd">>, "p2", 0)>>])],
      [dns |-> TRUE,
       realms |-> (EXAMPLE_COM :>
                     [kdc |-> <<URI(<<"kerberos", "tcp">>, "k4", 88)>>])],
      [dns |-> FALSE, realms |-> (MYEXAMPLE_COM :> << >>)] }

SRV(priority, weight, port, target) ==
    [priority |-> priority, weight |-> weight, port |-> port, target |-> target]

NoAnswer == [tcp |-> <<>>, udp |-> <<>>]

Zones ==
    { (SRV_KRB :> NoAnswer) @@ (SRV_KPWD :> NoAnswer)
          @@ (SRV_KPWD_ADM :> NoAnswer),
      (SRV_KRB :> [tcp |-> <<SRV(30, 100, 88, "k1"), SRV(10, 100, 1088, "k2")>>,
                   udp |-> <<SRV(10, 0, 88, "k1")>>])
          @@ (SRV_KPWD :> [tcp |-> <<>>, udp |-> <<SRV(0, 0, 464, "p1")>>])
          @@ (SRV_KPWD_ADM :> [tcp |-> <<SRV(0, 0, 749, "p2")>>, udp |-> <<>>]) }

\* A realm under no section of the file.
OtherRealm == Name(0, <<"OTHER">>)

\* The file of the deployment the application is run with: one realm, with
\* its servers listed.
ServedFile ==
    (EXAMPLE_COM :> [kerberos |-> <<K1, K2>>, kpasswd |-> <<P1>>])

\* The realms of the requests.
RequestRealms == {EXAMPLE_COM, OtherRealm, GLOBAL}

\* A limit one byte short.
MAX_LENGTH_short == 128 * 1024 - 1

MAX_LENGTH == 128 * 1024

\* A body as a client builds it: the message and, if any, the realm in a
\* ProxyMessage.
Envelope(message, realm) ==
    DerTLV(48, DerTLV(160, DerTLV(4, message))
               \o (IF realm = None THEN <<>>
                   ELSE DerTLV(161, DerTLV(27, realm[1]))))

\* An AS-REQ, a TGS-REQ and a password change (version 1, an AP-REQ of 4
\* bytes, a KRB-PRIV), each with its length prefix.
AS_REQ == PackU32(4) \o <<106, 2, 48, 0>>

TGS_REQ == PackU32(4) \o <<108, 2, 48, 0>>

KPASSWD_REQ ==
    PackU32(14) \o <<0, 14, 0, 1, 0, 4, 110, 2, 48, 0, 117, 2, 48, 0>>

\* The bodies of the requests: an AS-REQ for each realm, a password change
\* for EXAMPLE.COM, a TGS-REQ for OTHER; then a truncated envelope, an
\* envelope followed by a byte, one without realm, and envelopes around a
\* message of 3 bytes, a wrong length prefix, a NULL, an AS-REQ followed by
\* a byte and a password change of version 2.
Bodies ==
    { Envelope(AS_REQ, Some(<<69, 46, 67>>)),
      Envelope(AS_REQ, Some(<<79>>)),
      Envelope(AS_REQ, Some(<<103>>)),
      Envelope(KPASSWD_REQ, Some(<<69, 46, 67>>)),
      Envelope(TGS_REQ, Some(<<79>>)),
      <<48, 5, 160>>,
      Envelope(AS_REQ, Some(<<69, 46, 67>>)) \o <<0>>,
      Envelope(AS_REQ, None),
      Envelope(<<0, 0, 0>>, Some(<<69, 46, 67>>)),
      Envelope(PackU32(5) \o <<106, 2, 48, 0>>, Some(<<69, 46, 67>>)),
      Envelope(PackU32(2) \o <<5, 0>>, Some(<<69, 46, 67>>)),
      Envelope(PackU32(5) \o <<106, 2, 48, 0, 0>>, Some(<<69, 46, 67>>)),
      Envelope(PackU32(14) \o <<0, 14, 0, 2, 0, 4, 110, 2, 48, 0, 117, 2, 48, 0>>,
               Some(<<69, 46, 67>>)) }

\* The WSGI environments: REQUEST_METHOD, CONTENT_LENGTH (None when the
\* header is absent) and the bytes wsgi.input holds.  Every body comes as
\* a POST with its length; the TGS-REQ for OTHER comes with every method
\* and every length as well.
Envs ==
    {[method |-> "POST", length |-> Some(Len(body)), input |-> body] :
        body \in Bodies}
    \cup {[method |-> method, length |-> content_length,
           input |-> Envelope(TGS_REQ, Some(<<79>>))] :
            method \in {"POST", "post", "GET", "get"},
            content_length \in
                {None, Some(0), Some(Len(Envelope(TGS_REQ, Some(<<79>>)))),
                 Some(MAX_LENGTH), Some(MAX_LENGTH + 1)}}

\* str.upper on the methods
upper(method) ==
    IF method = "post" THEN "POST" ELSE IF method = "get" THEN "GET"
    ELSE method

\* What getaddrinfo may answer for a host, or a gaierror: the answer for a
\* host with an IPv6 address for TCP and an IPv4 address for UDP and raw
\* sockets.
AddrInfoAnswers ==
    { <<Addr(AF.INET6, SOCK.STREAM, IPPROTO.TCP, 2),
        Addr(AF.INET, SOCK.DGRAM, IPPROTO.UDP, 1),
        Addr(AF.INET, SOCK.RAW, IPPROTO.IP, 1)>> }

\* What recv may return on a stream socket: end of stream, a whole framed
\* message, and that message cut in two.
StreamParts == { <<>>, PackU32(1) \o <<7>>, <<0, 0, 0>>, <<1, 7>> }

\* The datagrams recv may return.
Datagrams == { <<7>>, <<>> }

\* The bytes buffered for one socket of the model are at most MaxBuf.
MaxBuf == 5

----------------------------------------------------------------------------
(* The state between two calls of the application *)

NoLookup ==
    [realm |-> NoneRealm, kpasswd |-> FALSE, exc |-> "none", val |-> <<>>,
     queries |-> <<>>, called |-> FALSE]

LookupOf(realm, kpasswd, r) ==
    [realm |-> realm, kpasswd |-> kpasswd, exc |-> r.exc, val |-> r.val,
     queries |-> r.queries, called |-> TRUE]

NoRequest == ProxyRequest(NoneRealm, "", <<>>)

NoEnv == [method |-> "", length |-> None, input |-> <<>>, read |-> FALSE]

NoPend == [w |-> <<>>, r |-> <<>>]

NoResponse == [status |-> 0, text |-> "", body |-> <<>>, exc |-> "none"]

CallIdle ==
    /\ pc = "idle"
    /\ env = NoEnv
    /\ pr = NoRequest
    /\ server_list = <<>>
    /\ sidx = 0
    /\ addrs = <<>>
    /\ aidx = 0
    /\ socks = <<>>
    /\ wsocks = <<>>
    /\ rsocks = <<>>
    /\ read_buffers = << >>
    /\ extra = 0
    /\ pend = NoPend
    /\ wire = None
    /\ reply = None
    /\ response = NoResponse
    /\ worked = [realm \in RequestRealms |-> None]

NoMemoCall ==
    [op |-> "", realm |-> NoneRealm, server |-> None, servers |-> <<>>,
     before |-> << >>, exc |-> "none", val |-> <<>>]

MemoIdle ==
    /\ memo_call = NoMemoCall
    /\ threads = << >>
    /\ received = << >>
    /\ api_call = None

ResolverInit ==
    /\ config = KDCProxyConfig_init(cp)
    /\ zone = CHOOSE z \in Zones : \A s \in DOMAIN z : z[s] = NoAnswer
    /\ lookup_res = NoLookup

----------------------------------------------------------------------------
(* The resolver on its own: construction, then lookups *)

InitResolver ==
    /\ cp \in ConfigFiles
    /\ extra_configs \in UNION {[1..n -> MITConfigs] : n \in 0..MaxAdapters}
    /\ ResolverInit
    /\ good_servers = << >>
    /\ CallIdle
    /\ MemoIdle

\* One call of MetaResolver.lookup, against what the DNS answers then.
Lookup(realm, kpasswd) ==
    /\ ~lookup_res.called
    /\ zone' \in Zones
    /\ lookup_res' =
           LookupOf(realm, kpasswd,
                    MetaResolver_lookup(config, extra_configs, zone', realm,
                                        kpasswd))
    /\ UNCHANGED <<cp, config, extra_configs, good_servers, cvars, worked,
                   mvars>>

\* The caller has taken the outcome; the resolver keeps no state of the call.
LookupReturn ==
    /\ lookup_res.called
    /\ lookup_res' = NoLookup
    /\ UNCHANGED <<cp, config, extra_configs, zone, good_servers, cvars,
                   worked, mvars>>

NextResolver ==
    \/ \E realm \in Realms, kpasswd \in BOOLEAN : Lookup(realm, kpasswd)
    \/ LookupReturn

SpecResolver == InitResolver /\ [][NextResolver]_vars

----------------------------------------------------------------------------
(* Application.__call__, one action per stretch between two waits on the   *)
(* environment (name resolution, socket creation, select, send, recv)      *)

\* The history of a call for `realm` that ends with `got`, None or Some of
\* the server that was being tried.
Finished(realm, got) ==
    worked' = [r \in DOMAIN worked |-> IF r = realm THEN got ELSE worked[r]]

\* start_response(str(e), e.headers); return [e.message]
Respond(status, text, body) ==
    /\ response' = [status |-> status, text |-> text, body |-> body,
                    exc |-> "none"]
    /\ pc' = "done"

\* An exception that is no HTTPException leaves __call__.
Escape(e) ==
    /\ response' = [status |-> 0, text |-> "", body |-> <<>>, exc |-> e]
    /\ pc' = "done"

\* From the method check to the reordering of the candidates.  `body` is
\* what wsgi.input holds, `z` what the DNS answers if it is asked.
Call(method, content_length, body, z) ==
    LET length == IF content_length = None THEN -1 ELSE content_length[1]
        checked == upper(method) = "POST" /\ length >= 0
                   /\ length <= MAX_LENGTH
        data == SubSeq(body, 1, IF length < Len(body) THEN length
                                ELSE Len(body))
        parsed == ProxyRequest_parse(data)
    IN
    /\ pc = "idle"
    /\ env' = [method |-> method, length |-> content_length,
               input |-> body, read |-> checked]
    /\ UNCHANGED <<cp, config, extra_configs, good_servers>>
    /\ UNCHANGED <<addrs, aidx, socks, wsocks, rsocks, read_buffers, extra,
                   pend, wire, reply, mvars>>
    /\ IF upper(method) # "POST"
       THEN /\ Respond(405, "Method not allowed (" \o upper(method) \o ").",
                       <<>>)
            /\ UNCHANGED <<zone, lookup_res, pr, server_list, sidx, worked>>
       ELSE IF length < 0
       THEN /\ Respond(411, "Length required.", <<>>)
            /\ UNCHANGED <<zone, lookup_res, pr, server_list, sidx, worked>>
       ELSE IF length > MAX_LENGTH
       THEN /\ Respond(413, "Request entity too large.", <<>>)
            /\ UNCHANGED <<zone, lookup_res, pr, server_list, sidx, worked>>
       ELSE IF parsed.exc = "ParsingError"
       THEN /\ Respond(400, parsed.val, <<>>)
            /\ UNCHANGED <<zone, lookup_res, pr, server_list, sidx, worked>>
       ELSE IF parsed.exc # "none"
       THEN /\ Escape(parsed.exc)
            /\ UNCHANGED <<zone, lookup_res, pr, server_list, sidx, worked>>
       ELSE LET req == parsed.val
                found == MetaResolver_lookup(config, extra_configs, z,
                                             req.realm, req.kind = "KPASSWD")
                order == reorder_servers(good_servers, req.realm, found.val)
            IN  /\ pr' = req
                /\ zone' = IF found.queries # <<>> THEN z ELSE zone
                /\ lookup_res' =
                       LookupOf(req.realm, req.kind = "KPASSWD", found)
                /\ IF found.exc # "none"
                   THEN /\ Escape(found.exc)
                        /\ Finished(req.realm, None)
                        /\ UNCHANGED <<server_list, sidx>>
                   ELSE IF found.val = <<>>
                   THEN /\ Respond(503, "Can't find remote", <<>>)
                        /\ Finished(req.realm, None)
                        /\ UNCHANGED <<server_list, sidx>>
                   ELSE IF order.exc # "none"
                   THEN /\ Escape(order.exc)
                        /\ Finished(req.realm, None)
                        /\ UNCHANGED <<server_list, sidx>>
                   ELSE /\ server_list' = order.val
                        /\ sidx' = 1
                        /\ pc' = "server"
                        /\ UNCHANGED <<response, worked>>

\* The head of the loop over the candidates, to the sorted addresses;
\* after the last candidate, the closing of the sockets and the answer.
\* `answer` is what getaddrinfo returns, Raise("gaierror") for a failure.
ServerStep(answer) ==
    /\ pc = "server"
    /\ UNCHANGED <<rvars, good_servers>>
    /\ UNCHANGED <<env, pr, server_list, wsocks, rsocks, read_buffers, extra, pend,
                   reply, mvars>>
    /\ wire' = None
    /\ IF sidx > Len(server_list)
       THEN /\ socks' = CloseAll(socks, rsocks \o wsocks)
            /\ Respond(503, "Remote unavailable", <<>>)
            /\ Finished(pr.realm, None)
            /\ UNCHANGED <<sidx, addrs, aidx>>
       ELSE IF ~scheme_supported(server_list[sidx].scheme)
               \/ answer.exc # "none"
       THEN /\ sidx' = sidx + 1
            /\ UNCHANGED <<pc, addrs, aidx, socks, response, worked>>
       ELSE /\ addrs' = SortedFiltered(answer.val)
            /\ aidx' = 1
            /\ pc' = "addr"
            /\ UNCHANGED <<sidx, socks, response, worked>>

\* A return of __await_reply without a reply that gives up the server at
\* once, whatever addresses are left.
AwaitReturns_hasty(got, ss, rs, ws) ==
    /\ read_buffers' = << >>
    /\ extra' = 0
    /\ pend' = NoPend
    /\ rsocks' = rs
    /\ wsocks' = ws
    /\ reply' = got
    /\ UNCHANGED mvars
    /\ IF got # None
       THEN /\ good_servers' =
                   mark_working(good_servers, pr.realm, server_list[sidx])
            /\ socks' = CloseAll(ss, rs \o ws)
            /\ Respond(200, "", codec_encode(got[1]))
            /\ Finished(pr.realm, Some(server_list[sidx]))
            /\ UNCHANGED <<sidx, aidx>>
       ELSE /\ good_servers' =
                   mark_broken(good_servers, pr.realm, server_list[sidx])
            /\ sidx' = sidx + 1
            /\ pc' = "server"
            /\ socks' = ss
            /\ UNCHANGED <<aidx, response, worked>>

\* What follows the return of __await_reply: with a reply, mark_working,
\* the closing of the sockets and the answer; without, the next address,
\* or mark_broken and the next candidate.  ss, rs, ws are the sockets and the
\* two lists as the await loop left them.
AwaitReturns(got, ss, rs, ws) ==
    /\ read_buffers' = << >>
    /\ extra' = 0
    /\ pend' = NoPend
    /\ rsocks' = rs
    /\ wsocks' = ws
    /\ reply' = got
    /\ UNCHANGED mvars
    /\ IF got # None
       THEN /\ good_servers' =
                   mark_working(good_servers, pr.realm, server_list[sidx])
            /\ socks' = CloseAll(ss, rs \o ws)
            /\ Respond(200, "", codec_encode(got[1]))
            /\ Finished(pr.realm, Some(server_list[sidx]))
            /\ UNCHANGED <<sidx, aidx>>
       ELSE IF aidx <= Len(addrs)
       THEN /\ aidx' = aidx + 1
            /\ pc' = "addr"
            /\ socks' = ss
            /\ UNCHANGED <<good_servers, sidx, response, worked>>
       ELSE /\ good_servers' =
                   mark_broken(good_servers, pr.realm, server_list[sidx])
            /\ sidx' = sidx + 1
            /\ pc' = "server"
            /\ socks' = ss
            /\ UNCHANGED <<aidx, response, worked>>

\* One turn of the loop over addrs + (None,), up to the call of
\* __await_reply.  `created` and `connected` tell whether socket.socket and
\* sock.connect go through (a connect in progress goes through).
AddrStep(created, connected) ==
    /\ pc = "addr"
    /\ UNCHANGED <<rvars, good_servers>>
    /\ UNCHANGED <<env, pr, server_list, sidx, addrs, read_buffers, extra, pend,
                   reply, mvars>>
    /\ wire' = None
    /\ LET sentinel == aidx = Len(addrs) + 1
           scheme == server_list[sidx].scheme
           new == Len(socks) + 1
       IN  IF ~sentinel /\ Len(scheme) > 1
              /\ addrs[aidx].socktype # SOCKTYPES[scheme[2]]
           THEN /\ aidx' = aidx + 1
                /\ UNCHANGED <<pc, socks, wsocks, rsocks, response, worked>>
           ELSE IF ~sentinel /\ ~created
           THEN /\ Escape("OSError")
                /\ Finished(pr.realm, None)
                /\ UNCHANGED <<aidx, socks, wsocks, rsocks>>
           ELSE IF ~sentinel /\ ~connected
           THEN /\ socks' = Append(socks,
                       [Socket(addrs[aidx].socktype, sidx) EXCEPT !.open = FALSE])
                /\ aidx' = aidx + 1
                /\ UNCHANGED <<pc, wsocks, rsocks, response, worked>>
           ELSE LET ss == IF sentinel THEN socks
                          ELSE Append(socks, Socket(addrs[aidx].socktype, sidx))
                    ws == IF sentinel THEN wsocks ELSE Append(wsocks, new)
                    lists == ResendDgrams(ss, rsocks,
                                          [rsocks |-> rsocks, wsocks |-> ws])
                IN  /\ socks' = ss
                    /\ wsocks' = lists.wsocks
                    /\ rsocks' = lists.rsocks
                    /\ pc' = "await"
                    /\ UNCHANGED <<aidx, response, worked>>

\* The head of the await loop when the deadline has passed or both lists
\* are empty: __await_reply returns None.
AwaitReturnNone ==
    /\ pc = "await"
    /\ UNCHANGED <<rvars, env, pr, server_list, addrs>>
    /\ wire' = None
    /\ AwaitReturns(None, socks, rsocks, wsocks)

\* A loop over x that leaves the lists as they are.
DropEach_none(list, x) == list

RECURSIVE DropEach(_, _)
\* The loop over x: each socket removed from a list when it is in it.
DropEach(list, x) ==
    IF x = <<>> THEN list
    ELSE DropEach(IF Head(x) \in Range(list) THEN RemoveFirst(list, Head(x))
                  ELSE list,
                  Tail(x))

\* The sockets select reports in one return of the model are at most MaxReady.
MaxReady == 1

\* select returns before the deadline: rpos, wpos, xpos are the positions, in
\* rsocks, wsocks and rsocks + wsocks, of the sockets it reports.  The
\* action runs the loop over x; the loops over w and r follow, one socket
\* at a time.
Select(rpos, wpos, xpos) ==
    /\ pc = "await"
    /\ rpos \cup wpos \cup xpos # {}
    /\ Cardinality(Range(Pick(rsocks, rpos)) \cup Range(Pick(wsocks, wpos))
                   \cup Range(Pick(rsocks \o wsocks, xpos))) <= MaxReady
    /\ UNCHANGED <<rvars, good_servers>>
    /\ UNCHANGED <<env, pr, server_list, sidx, addrs, aidx, read_buffers, extra,
                   reply, mvars>>
    /\ wire' = None
    /\ IF \E i \in Range(rsocks \o wsocks) : ~socks[i].open
       THEN /\ Escape("ValueError")
            /\ Finished(pr.realm, None)
            /\ UNCHANGED <<socks, wsocks, rsocks, pend>>
       ELSE LET x == Pick(rsocks \o wsocks, xpos)
                p == [w |-> Pick(wsocks, wpos), r |-> Pick(rsocks, rpos)]
            IN  /\ socks' = CloseAll(socks, x)
                /\ rsocks' = DropEach(rsocks, x)
                /\ wsocks' = DropEach(wsocks, x)
                /\ pend' = p
                /\ pc' = IF p = NoPend THEN "await" ELSE "loop"
                /\ UNCHANGED <<response, worked>>

\* One turn of the loop over w: sendall on the socket.  `outcome` is "ok",
\* or the error raised: "EHOSTUNREACH", "error" (another errno), "noerrno"
\* (an exception that has no errno attribute).
SendStep(outcome) ==
    /\ pc = "loop"
    /\ pend.w # <<>>
    /\ UNCHANGED <<rvars, good_servers>>
    /\ UNCHANGED <<env, pr, server_list, sidx, addrs, aidx, read_buffers,
                   reply, mvars>>
    /\ LET sock == Head(pend.w)
           rest == [pend EXCEPT !.w = Tail(pend.w)]
           raised == IF socks[sock].open THEN outcome ELSE "error"
           left == ListRemove(wsocks, sock)
           on == IF rest = NoPend THEN "await" ELSE "loop"
       IN  IF raised = "noerrno"
           THEN /\ Escape("AttributeError")
                /\ Finished(pr.realm, None)
                /\ wire' = None
                /\ UNCHANGED <<socks, wsocks, rsocks, extra, pend>>
           ELSE IF raised = "error"
           THEN /\ pend' = rest
                /\ pc' = on
                /\ wire' = None
                /\ UNCHANGED <<socks, wsocks, rsocks, extra, response, worked>>
           ELSE IF left.exc # "none"
           THEN /\ Escape(left.exc)
                /\ Finished(pr.realm, None)
                /\ wire' = None
                /\ UNCHANGED <<socks, wsocks, rsocks, extra, pend>>
           ELSE IF raised = "EHOSTUNREACH"
           THEN /\ wsocks' = left.val
                /\ pend' = rest
                /\ pc' = on
                /\ wire' = None
                /\ UNCHANGED <<socks, rsocks, extra, response, worked>>
           ELSE /\ wire' = Some([op |-> "sendall", sock |-> sock,
                                 data |-> IF socks[sock].type = SOCK.DGRAM
                                          THEN SubSeq(pr.request, 5,
                                                      Len(pr.request))
                                          ELSE pr.request,
                                 again |-> socks[sock].sent])
                /\ socks' = [socks EXCEPT ![sock].sent = TRUE]
                /\ extra' = IF socks[sock].type = SOCK.DGRAM THEN extra ELSE 10
                /\ rsocks' = Append(rsocks, sock)
                /\ wsocks' = left.val
                /\ pend' = rest
                /\ pc' = on
                /\ UNCHANGED <<response, worked>>

\* One turn of the loop over r: __handle_recv on the socket.  `part` is
\* what recv returns, Raise(..) when it raises.
RecvStep(part) ==
    /\ pc = "loop"
    /\ pend.w = <<>>
    /\ pend.r # <<>>
    /\ UNCHANGED <<rvars, env, pr, server_list, addrs>>
    /\ LET sock == Head(pend.r)
           rest == [pend EXCEPT !.r = Tail(pend.r)]
           stream == socks[sock].type = SOCK.STREAM
           raised == ~socks[sock].open \/ part.exc # "none"
           left == ListRemove(rsocks, sock)
           got == handle_recv_stream(read_buffers, sock, part.val)
           on == IF rest = NoPend THEN "await" ELSE "loop"
       IN  /\ wire' = IF raised THEN None
                      ELSE Some([op |-> "recv", sock |-> sock,
                                 data |-> part.val, again |-> FALSE])
           /\ IF raised /\ stream /\ left.exc # "none"
              THEN /\ Escape(left.exc)
                   /\ Finished(pr.realm, None)
                   /\ UNCHANGED <<good_servers, sidx, aidx, socks, wsocks, rsocks,
                                  read_buffers, extra, pend, reply, mvars>>
              ELSE IF raised
              THEN /\ rsocks' = IF stream THEN left.val ELSE rsocks
                   /\ pend' = rest
                   /\ pc' = on
                   /\ UNCHANGED <<good_servers, sidx, aidx, socks, wsocks,
                                  read_buffers, extra, reply, response, worked,
                                  mvars>>
              ELSE IF ~stream
              THEN AwaitReturns(Some(handle_recv_dgram(part.val)), socks, rsocks,
                                wsocks)
              ELSE IF got.reply # None
              THEN AwaitReturns(got.reply, socks, rsocks, wsocks)
              ELSE /\ read_buffers' = got.buffers
                   /\ pend' = rest
                   /\ pc' = on
                   /\ UNCHANGED <<good_servers, sidx, aidx, socks, wsocks, rsocks,
                                  extra, reply, response, worked, mvars>>

\* The call has returned; the next one starts from nothing but the memo.
Return ==
    /\ pc = "done"
    /\ pc' = "idle"
    /\ env' = NoEnv
    /\ pr' = NoRequest
    /\ server_list' = <<>>
    /\ sidx' = 0
    /\ addrs' = <<>>
    /\ aidx' = 0
    /\ socks' = <<>>
    /\ wsocks' = <<>>
    /\ rsocks' = <<>>
    /\ read_buffers' = << >>
    /\ extra' = 0
    /\ pend' = NoPend
    /\ wire' = None
    /\ reply' = None
    /\ response' = NoResponse
    /\ lookup_res' = NoLookup
    /\ UNCHANGED <<cp, config, extra_configs, zone, good_servers, worked,
                   mvars>>

\* The parts recv may return on a socket, given what is buffered for it.
PartsFor(sock) ==
    IF socks[sock].type = SOCK.DGRAM THEN Datagrams
    ELSE {p \in StreamParts :
            Len(p) + (IF sock \in DOMAIN read_buffers
                      THEN Len(read_buffers[sock]) ELSE 0) <= MaxBuf}

Init ==
    /\ cp = ServedFile
    /\ extra_configs \in {<<>>, <<CHOOSE m \in MITConfigs : ~m.dns>>}
    /\ ResolverInit
    /\ good_servers = << >>
    /\ CallIdle
    /\ MemoIdle

Next ==
    \/ \E e \in Envs, z \in Zones : Call(e.method, e.length, e.input, z)
    \/ \E answer \in {Raise("gaierror")} \cup {Ok(a) : a \in AddrInfoAnswers} :
            ServerStep(answer)
    \/ \E created, connected \in BOOLEAN : AddrStep(created, connected)
    \/ AwaitReturnNone
    \/ \E rpos \in SUBSET (1..Len(rsocks)), wpos \in SUBSET (1..Len(wsocks)),
          xpos \in SUBSET (1..(Len(rsocks) + Len(wsocks))) :
            Select(rpos, wpos, xpos)
    \/ \E outcome \in {"ok", "EHOSTUNREACH", "error", "noerrno"} :
            SendStep(outcome)
    \/ \E part \in {Raise("error")} \cup
                   (IF pc = "loop" /\ pend.r # <<>>
                    THEN {Ok(p) : p \in PartsFor(Head(pend.r))} ELSE {}) :
            RecvStep(part)
    \/ Return

Spec == Init /\ [][Next]_vars

\* The application run with a file that lists, for its one realm, servers
\* whose URIs the engine does not support (http://h1, kerberos+sctp://k5)
\* next to one it does.
InitSkipping ==
    /\ cp = (EXAMPLE_COM :>
                [kerberos |-> <<URI(<<"http">>, "h1", 80), K2,
                                URI(<<"kerberos", "sctp">>, "k5", 88)>>,
                 kpasswd |-> <<URI(<<"kpasswd", "sctp">>, "p5", 464),
                               URI(<<"http">>, "h1", 80)>>])
    /\ extra_configs = <<>>
    /\ ResolverInit
    /\ good_servers = << >>
    /\ CallIdle
    /\ MemoIdle

SpecSkipping == InitSkipping /\ [][Next]_vars

----------------------------------------------------------------------------
(* WorkingServerMap called on its own: any sequence of calls, one at a    *)
(* time, each call recorded with the map it found.                        *)

MaxServers == 3

MemoRealms == {EXAMPLE_COM, FOO_EXAMPLE_COM}

MemoServers == {K1, K2, K3}

MemoCall(op, realm, server, servers, result) ==
    [op |-> op, realm |-> realm, server |-> server, servers |-> servers,
     before |-> good_servers, exc |-> result.exc, val |-> result.val]

MemoMarkWorking(realm, server) ==
    /\ good_servers' = mark_working(good_servers, realm, server)
    /\ memo_call' = MemoCall("mark_working", realm, Some(server), <<>>, Ok(<<>>))
    /\ UNCHANGED <<rvars, cvars, worked, threads, received, api_call>>

MemoMarkBroken(realm, server) ==
    /\ good_servers' = mark_broken(good_servers, realm, server)
    /\ memo_call' = MemoCall("mark_broken", realm, Some(server), <<>>, Ok(<<>>))
    /\ UNCHANGED <<rvars, cvars, worked, threads, received, api_call>>

MemoReorder(realm, servers) ==
    /\ memo_call' = MemoCall("reorder_servers", realm, None, servers,
                             reorder_servers(good_servers, realm, servers))
    /\ UNCHANGED <<rvars, good_servers, cvars, worked, threads, received,
                   api_call>>

InitMemo ==
    /\ cp = ServedFile
    /\ extra_configs = <<>>
    /\ ResolverInit
    /\ good_servers = << >>
    /\ CallIdle
    /\ MemoIdle

NextMemo ==
    \/ \E realm \in MemoRealms, server \in MemoServers :
            MemoMarkWorking(realm, server)
    \/ \E realm \in MemoRealms, server \in MemoServers :
            MemoMarkBroken(realm, server)
    \* two URIs that differ in the case of the scheme parse to the same
    \* server, so a list may hold a server twice
    \/ \E realm \in MemoRealms,
          servers \in UNION {[1..n -> MemoServers] : n \in 0..MaxServers} :
            MemoReorder(realm, servers)

SpecMemo == InitMemo /\ [][NextMemo]_vars

----------------------------------------------------------------------------
(* WorkingServerMap under concurrent requests for one realm.  Each thread *)
(* runs the calls __call__ makes, in its order: reorder_servers, then for *)
(* each server of the list mark_broken or, ending the loop, mark_working. *)
(* A step is one access to the dict; the threads interleave between them. *)

MaxThreads == 2

ConcRealm == EXAMPLE_COM

\* What lookup returns to every request for the realm.
Candidates == <<K1, K2>>

ThreadIdle ==
    [pc |-> "idle", server_list |-> <<>>, sidx |-> 0, new_list |-> <<>>,
     exc |-> "none"]

\* An exception leaves the call and with it the request.
ThreadRaise(t, e) ==
    threads' = [threads EXCEPT ![t] = [ThreadIdle EXCEPT !.exc = e]]

\* if realm in self.__good_servers: new_list = list(servers)
\* else: return servers
ConcReorderIn(t) ==
    /\ threads[t].pc = "idle"
    /\ threads' = [threads EXCEPT ![t] =
           IF ConcRealm \in DOMAIN good_servers
           THEN [ThreadIdle EXCEPT !.pc = "remove", !.new_list = Candidates]
           ELSE [ThreadIdle EXCEPT !.pc = "serve", !.server_list = Candidates,
                                   !.sidx = 1]]
    /\ UNCHANGED <<rvars, good_servers, cvars, worked, memo_call,
                   received, api_call>>

\* new_list.remove(self.__good_servers[realm])
ConcReorderRemove(t) ==
    /\ threads[t].pc = "remove"
    /\ IF ConcRealm \notin DOMAIN good_servers
       THEN ThreadRaise(t, "KeyError")
       ELSE LET removed == ListRemove(threads[t].new_list,
                                      good_servers[ConcRealm])
            IN  IF removed.exc # "none" THEN ThreadRaise(t, removed.exc)
                ELSE threads' = [threads EXCEPT ![t].pc = "return",
                                                ![t].new_list = removed.val]
    /\ UNCHANGED <<rvars, good_servers, cvars, worked, memo_call,
                   received, api_call>>

\* return (self.__good_servers[realm],) + tuple(new_list)
ConcReorderReturn(t) ==
    /\ threads[t].pc = "return"
    /\ IF ConcRealm \notin DOMAIN good_servers
       THEN ThreadRaise(t, "KeyError")
       ELSE threads' = [threads EXCEPT
                ![t].pc = "serve",
                ![t].server_list =
                    <<good_servers[ConcRealm]>> \o threads[t].new_list,
                ![t].sidx = 1]
    /\ UNCHANGED <<rvars, good_servers, cvars, worked, memo_call,
                   received, api_call>>

\* The loop over server_list is over, or `continue` skips a server.
ConcNext(t) ==
    /\ threads[t].pc = "serve"
    /\ threads' = [threads EXCEPT ![t] =
           IF threads[t].sidx > Len(threads[t].server_list) THEN ThreadIdle
           ELSE [threads[t] EXCEPT !.sidx = @ + 1]]
    /\ UNCHANGED <<rvars, good_servers, cvars, worked, memo_call,
                   received, api_call>>

\* self.__good_servers[realm] = server, and the break out of the loop
ConcMarkWorking(t) ==
    /\ threads[t].pc = "serve"
    /\ threads[t].sidx <= Len(threads[t].server_list)
    /\ good_servers' = mark_working(good_servers, ConcRealm,
                                    threads[t].server_list[threads[t].sidx])
    /\ threads' = [threads EXCEPT ![t] = ThreadIdle]
    /\ UNCHANGED <<rvars, cvars, worked, memo_call,
                   received, api_call>>

\* if realm in self.__good_servers:
ConcMarkBrokenIn(t) ==
    /\ threads[t].pc = "serve"
    /\ threads[t].sidx <= Len(threads[t].server_list)
    /\ threads' = [threads EXCEPT ![t] =
           IF ConcRealm \in DOMAIN good_servers
           THEN [threads[t] EXCEPT !.pc = "equal"]
           ELSE [threads[t] EXCEPT !.sidx = @ + 1]]
    /\ UNCHANGED <<rvars, good_servers, cvars, worked, memo_call,
                   received, api_call>>

\* if (self.__good_servers[realm] == server):
ConcMarkBrokenEqual(t) ==
    /\ threads[t].pc = "equal"
    /\ IF ConcRealm \notin DOMAIN good_servers
       THEN ThreadRaise(t, "KeyError")
       ELSE threads' = [threads EXCEPT ![t] =
                IF good_servers[ConcRealm] =
                       threads[t].server_list[threads[t].sidx]
                THEN [threads[t] EXCEPT !.pc = "del"]
                ELSE [threads[t] EXCEPT !.pc = "serve", !.sidx = @ + 1]]
    /\ UNCHANGED <<rvars, good_servers, cvars, worked, memo_call,
                   received, api_call>>

\* del self.__good_servers[realm]
ConcMarkBrokenDel(t) ==
    /\ threads[t].pc = "del"
    /\ IF ConcRealm \notin DOMAIN good_servers
       THEN ThreadRaise(t, "KeyError") /\ UNCHANGED good_servers
       ELSE /\ good_servers' =
                   [r \in DOMAIN good_servers \ {ConcRealm} |-> good_servers[r]]
            /\ threads' = [threads EXCEPT ![t].pc = "serve",
                                          ![t].sidx = @ + 1]
    /\ UNCHANGED <<rvars, cvars, worked, memo_call,
                   received, api_call>>

InitConc ==
    /\ cp = ServedFile
    /\ extra_configs = <<>>
    /\ ResolverInit
    /\ good_servers = << >>
    /\ CallIdle
    /\ memo_call = NoMemoCall
    /\ threads = [t \in 1..MaxThreads |-> ThreadIdle]
    /\ received = << >>
    /\ api_call = None

NextConc ==
    \E t \in 1..MaxThreads :
        \/ ConcReorderIn(t)
        \/ ConcReorderRemove(t)
        \/ ConcReorderReturn(t)
        \/ ConcNext(t)
        \/ ConcMarkWorking(t)
        \/ ConcMarkBrokenIn(t)
        \/ ConcMarkBrokenEqual(t)
        \/ ConcMarkBrokenDel(t)

SpecConc == InitConc /\ [][NextConc]_vars

----------------------------------------------------------------------------
(* __handle_recv called on its own, as the tests call it: a fixed set of  *)
(* sockets, one dict of buffers, and recv returning any chunk on any of   *)
(* them in any order.                                                     *)

\* Two stream sockets and a datagram socket.
RecvSocks ==
    <<Socket(SOCK.STREAM, K1), Socket(SOCK.STREAM, K2),
      Socket(SOCK.DGRAM, K1)>>

\* The bytes recv returns for one socket between two replies are at most
\* MaxRecv.
MaxRecv == 6

\* The bytes of the chunks, one after the other.
RECURSIVE Flatten(_)
Flatten(chunks) ==
    IF chunks = <<>> THEN <<>> ELSE Head(chunks) \o Flatten(Tail(chunks))

\* One call of __handle_recv(sock, read_buffers), recv returning `part`.
HandleRecv(sock, part) ==
    LET stream == socks[sock].type = SOCK.STREAM
        res    == handle_recv_stream(read_buffers, sock, part)
        got    == IF stream THEN res.reply
                  ELSE Some(handle_recv_dgram(part))
        before == IF received[sock].done THEN <<>>
                  ELSE received[sock].chunks
    IN  /\ Len(Flatten(before)) + Len(part) <= MaxRecv
        /\ wire' = Some([op |-> "recv", sock |-> sock, data |-> part,
                         again |-> FALSE])
        /\ reply' = got
        /\ read_buffers' = IF stream THEN res.buffers ELSE read_buffers
        /\ received' = [received EXCEPT
                           ![sock] = [chunks |-> Append(before, part),
                                      done |-> got # None]]
        /\ response' = [NoResponse EXCEPT
                           !.exc = IF stream THEN res.exc ELSE "none"]
        /\ UNCHANGED <<rvars, good_servers, pc, env, pr, server_list, sidx, addrs,
                       aidx, socks, wsocks, rsocks, extra, pend, worked,
                       memo_call, threads, api_call>>

InitRecv ==
    /\ cp = ServedFile
    /\ extra_configs = <<>>
    /\ ResolverInit
    /\ good_servers = << >>
    /\ pc = "idle"
    /\ env = NoEnv
    /\ pr = NoRequest
    /\ server_list = <<>>
    /\ sidx = 0
    /\ addrs = <<>>
    /\ aidx = 0
    /\ socks = RecvSocks
    /\ wsocks = <<>>
    /\ rsocks = <<>>
    /\ read_buffers = << >>
    /\ extra = 0
    /\ pend = NoPend
    /\ wire = None
    /\ reply = None
    /\ response = NoResponse
    /\ worked = [realm \in RequestRealms |-> None]
    /\ memo_call = NoMemoCall
    /\ threads = << >>
    /\ received = [sock \in DOMAIN RecvSocks |->
                      [chunks |-> <<>>, done |-> FALSE]]
    /\ api_call = None

\* What recv may return on a stream socket here: the parts of the engine,
\* a prefix that declares no payload, a prefix that declares more than
\* MAX_LENGTH, alone and followed by a byte, and a message with one byte
\* more than it declares.
NextRecv ==
    \E sock \in DOMAIN RecvSocks :
        \E part \in IF socks[sock].type = SOCK.STREAM
                     THEN StreamParts \cup
                          { PackU32(0), PackU32(MAX_LENGTH + 1),
                            PackU32(MAX_LENGTH + 1) \o <<7>>,
                            PackU32(1) \o <<7, 7>> }
                     ELSE Datagrams :
            HandleRecv(sock, part)

SpecRecv == InitRecv /\ [][NextRecv]_vars

----------------------------------------------------------------------------
(* KDCProxyConfig's methods, DNSResolver.lookup and codec.decode, each     *)
(* called on its own                                                       *)

\* DNS answers with records of equal priority and of different weights.
DnsZones ==
    Zones \cup
    { (SRV_KRB :> [tcp |-> <<SRV(10, 5, 88, "k1"), SRV(10, 50, 88, "k2"),
                            SRV(0, 1, 88, "k3")>>,
                   udp |-> <<SRV(20, 0, 88, "k1"), SRV(10, 7, 88, "k2")>>])
          @@ (SRV_KPWD :> [tcp |-> <<SRV(5, 9, 464, "p1"), SRV(5, 1, 464, "p2")>>,
                           udp |-> <<>>])
          @@ (SRV_KPWD_ADM :> [tcp |-> <<SRV(0, 0, 749, "p9")>>,
                               udp |-> <<SRV(1, 0, 749, "p2"),
                                         SRV(0, 3, 464, "p1")>>]) }

\* Inner messages for EXAMPLE.COM beside those of Bodies: length prefixes
\* one too small and one too large, a prefix alone, an AP-REQ where a
\* ticket request is expected, a set-password request (version 0xff80),
\* and password changes with a wrong length field, cut short, without the
\* KRB-PRIV, with a byte after it, with a ticket request's tag on the
\* AP-REQ, and with a byte between the AP-REQ and the KRB-PRIV that the
\* AP-REQ length counts.
Messages ==
    { PackU32(3) \o <<106, 2, 48, 0>>,
      PackU32(5) \o <<108, 2, 48, 0>>,
      PackU32(3) \o <<108, 2, 48, 0>>,
      PackU32(13) \o <<0, 14, 0, 1, 0, 4, 110, 2, 48, 0, 117, 2, 48, 0>>,
      PackU32(0),
      PackU32(1) \o <<106>>,
      PackU32(4) \o <<110, 2, 48, 0>>,
      PackU32(5) \o <<108, 2, 48, 0, 0>>,
      PackU32(14) \o <<0, 14, 255, 128, 0, 4, 110, 2, 48, 0, 117, 2, 48, 0>>,
      PackU32(14) \o <<0, 13, 0, 1, 0, 4, 110, 2, 48, 0, 117, 2, 48, 0>>,
      PackU32(14) \o <<0, 14, 0, 1, 0, 9, 110, 2, 48, 0, 117, 2, 48, 0>>,
      PackU32(10) \o <<0, 10, 0, 1, 0, 4, 110, 2, 48, 0>>,
      PackU32(15) \o <<0, 15, 0, 1, 0, 4, 110, 2, 48, 0, 117, 2, 48, 0, 0>>,
      PackU32(14) \o <<0, 14, 0, 1, 0, 4, 106, 2, 48, 0, 117, 2, 48, 0>>,
      PackU32(15) \o <<0, 15, 0, 1, 0, 5, 110, 2, 48, 0, 0, 117, 2, 48, 0>> }

\* KDCProxyConfig.lookup(realm, kpasswd)
ConfigLookup(realm, kpasswd) ==
    /\ api_call = None
    /\ api_call' =
           LET r == KDCProxyConfig_lookup(config, realm, kpasswd)
           IN  Some([op |-> "lookup", realm |-> realm, kpasswd |-> kpasswd,
                     exc |-> r.exc, val |-> r.val])
    /\ UNCHANGED <<rvars, good_servers, cvars, worked, memo_call, threads,
                   received>>

\* KDCProxyConfig.realm_configured(realm)
ConfigRealmConfigured(realm) ==
    /\ api_call = None
    /\ api_call' =
           LET r == KDCProxyConfig_realm_configured(config, realm)
           IN  Some([op |-> "realm_configured", realm |-> realm,
                     exc |-> r.exc, val |-> r.val])
    /\ UNCHANGED <<rvars, good_servers, cvars, worked, memo_call, threads,
                   received>>

\* KDCProxyConfig.param(realm, param)
ConfigParam(realm, param) ==
    /\ api_call = None
    /\ api_call' =
           LET r == KDCProxyConfig_param(config, realm, param)
           IN  Some([op |-> "param", realm |-> realm, param |-> param,
                     exc |-> r.exc, val |-> r.val])
    /\ UNCHANGED <<rvars, good_servers, cvars, worked, memo_call, threads,
                   received>>

\* tuple(DNSResolver.lookup(realm, kpasswd)), the generator run to its end
DnsLookup(realm, kpasswd) ==
    /\ api_call = None
    /\ api_call' =
           LET r == DNSResolver_lookup(zone, realm, kpasswd)
           IN  Some([op |-> "dns", realm |-> realm, kpasswd |-> kpasswd,
                     exc |-> "none", val |-> r.val, queries |-> r.queries])
    /\ UNCHANGED <<rvars, good_servers, cvars, worked, memo_call, threads,
                   received>>

\* codec.decode(data)
Decode(data) ==
    /\ api_call = None
    /\ api_call' =
           LET r == ProxyRequest_parse(data)
           IN  Some([op |-> "decode", data |-> data, exc |-> r.exc,
                     val |-> r.val, tried |-> r.tried])
    /\ UNCHANGED <<rvars, good_servers, cvars, worked, memo_call, threads,
                   received>>

\* The caller has taken the outcome; none of the calls leaves a trace in
\* the object it was made on.
ApiReturn ==
    /\ api_call # None
    /\ api_call' = None
    /\ UNCHANGED <<rvars, good_servers, cvars, worked, memo_call, threads,
                   received>>

InitApi ==
    /\ cp \in ConfigFiles
    /\ extra_configs = <<>>
    /\ config = KDCProxyConfig_init(cp)
    /\ zone \in DnsZones
    /\ lookup_res = NoLookup
    /\ good_servers = << >>
    /\ CallIdle
    /\ MemoIdle

NextApi ==
    \/ \E realm \in Realms \cup {Name(0, <<"A", "B", "C", "EXAMPLE", "COM">>)} :
           \/ \E kpasswd \in BOOLEAN : ConfigLookup(realm, kpasswd)
           \/ ConfigRealmConfigured(realm)
    \/ \E realm \in Realms \cup {Name(0, <<"A", "B", "C", "EXAMPLE", "COM">>),
                                  NoneRealm},
          param \in {"use_dns", "silence_port_warn", "dns_realm_discovery",
                     "kerberos", "bogus"} :
           ConfigParam(realm, param)
    \/ \E kpasswd \in BOOLEAN : DnsLookup(EXAMPLE_COM, kpasswd)
    \* the bodies of the engine, the messages in an envelope for EXAMPLE.COM,
    \* and the requests encoded anew by codec.encode
    \/ \E data \in Bodies
                    \cup {Envelope(message, Some(<<69, 46, 67>>)) :
                            message \in Messages}
                    \cup {codec_encode(message) :
                            message \in {AS_REQ, TGS_REQ, KPASSWD_REQ}} :
           Decode(data)
    \/ ApiReturn

SpecApi == InitApi /\ [][NextApi]_vars

----------------------------------------------------------------------------
(* What the configuration declares, read off the file and the adapters *)

\* Section `*SUFFIX` matches realm R iff R = SUFFIX or R ends with .SUFFIX.
WildcardMatches(section, realm) ==
    /\ section.stars = 1
    /\ realm.stars = 0
    /\ Len(section.labels) <= Len(realm.labels)
    /\ SubSeq(realm.labels,
              Len(realm.labels) - Len(section.labels) + 1,
              Len(realm.labels)) = section.labels

DeclaredInFile(realm) ==
    \/ realm \in DOMAIN cp
    \/ \E section \in DOMAIN cp : WildcardMatches(section, realm)

DeclaredInAdapter(realm) ==
    \E i \in 1..Len(extra_configs) : realm \in DOMAIN extra_configs[i].realms

Declared(realm) == DeclaredInFile(realm) \/ DeclaredInAdapter(realm)

\* The global section sets dns_realm_discovery to a true value.
DiscoveryOpen ==
    /\ GLOBAL \in DOMAIN cp
    /\ "dns_realm_discovery" \in DOMAIN cp[GLOBAL]
    /\ getboolean(cp[GLOBAL]["dns_realm_discovery"])

OwnServers(realm, kpasswd) == KDCProxyConfig_lookup(config, realm, kpasswd).val

AdaptersWithServers(realm, kpasswd) ==
    {i \in 1..Len(extra_configs) :
        MITConfig_lookup(extra_configs[i], realm, kpasswd) # <<>>}

UseDns(realm) == KDCProxyConfig_param(config, realm, "use_dns").val

\* A lookup of a realm other than the reserved name has just been made.
Looked == lookup_res.called /\ lookup_res.realm # GLOBAL

----------------------------------------------------------------------------
(* C1: for a realm that no source declares (no exact section, no matching  *)
(* wildcard section, no adapter entry), with dns_realm_discovery unset or  *)
(* false, MetaResolver.lookup returns the empty tuple and issues no SRV    *)
(* query, whatever use_dns is.                                             *)
C1_UndeclaredRealmGetsNothing ==
    (Looked /\ ~Declared(lookup_res.realm) /\ ~DiscoveryOpen)
        => /\ lookup_res.exc = "none"
           /\ lookup_res.val = <<>>
           /\ lookup_res.queries = <<>>

(* C2: MetaResolver.lookup issues SRV queries for a realm if and only if   *)
(* no configured source returned servers for it, and the realm is          *)
(* configured in some source or dns_realm_discovery is true, and           *)
(* param(realm, 'use_dns') is true.                                        *)
C2_SrvQueriesIffAllowed ==
    Looked =>
        ( lookup_res.queries # <<>>
          <=> /\ OwnServers(lookup_res.realm, lookup_res.kpasswd) = <<>>
              /\ AdaptersWithServers(lookup_res.realm, lookup_res.kpasswd) = {}
              /\ Declared(lookup_res.realm) \/ DiscoveryOpen
              /\ UseDns(lookup_res.realm) )

(* C3: MetaResolver.lookup returns the servers of the first source that    *)
(* has any, in the order kdcproxy.conf, the adapters in registration       *)
(* order, DNS (a source when discovery is allowed for the realm); when     *)
(* kdcproxy.conf or an adapter lists servers for the realm, no SRV query   *)
(* is issued, whatever use_dns is.                                         *)
C3_FirstSourceWins ==
    Looked =>
        LET own == OwnServers(lookup_res.realm, lookup_res.kpasswd)
            ads == AdaptersWithServers(lookup_res.realm, lookup_res.kpasswd)
        IN  /\ own # <<>> =>
                /\ lookup_res.exc = "none"
                /\ lookup_res.val = Unique(own)
                /\ lookup_res.queries = <<>>
            /\ (own = <<>> /\ ads # {}) =>
                /\ lookup_res.exc = "none"
                /\ lookup_res.val =
                       Unique(MITConfig_lookup(extra_configs[Min(ads)],
                                               lookup_res.realm,
                                               lookup_res.kpasswd))
                /\ lookup_res.queries = <<>>
            /\ ( /\ own = <<>>
                 /\ ads = {}
                 /\ Declared(lookup_res.realm) \/ DiscoveryOpen
                 /\ UseDns(lookup_res.realm) ) =>
                /\ lookup_res.exc = "none"
                /\ lookup_res.val =
                       Unique(DNSResolver_lookup(zone, lookup_res.realm,
                                                 lookup_res.kpasswd).val)

----------------------------------------------------------------------------
(* C4: on every exit path of a request, a reply received, all servers      *)
(* exhausted, or an exception escaping, every socket the request created   *)
(* has been closed when the handler returns.                               *)
C4_SocketsClosedOnExit ==
    pc = "done" => \A i \in 1..Len(socks) : ~socks[i].open

(* C5: once a request for a realm has got its reply while server S was     *)
(* being tried, the next request for the realm whose candidate list holds  *)
(* S tries S first; and when S has been tried through all its addresses    *)
(* and the final wait without a reply, S is no longer the remembered       *)
(* server of the realm.                                                    *)
C5_RememberedTriedFirst ==
    [][ /\ ( /\ pc = "idle"
             /\ lookup_res'.called
             /\ lookup_res'.exc = "none"
             /\ worked[pr'.realm] # None
             /\ worked[pr'.realm][1] \in Range(lookup_res'.val) )
           => /\ pc' = "server"
              /\ sidx' = 1
              /\ server_list'[1] = worked[pr'.realm][1]
        /\ (pc \in {"await", "loop"} /\ pc' = "server")
           => \/ pr.realm \notin DOMAIN good_servers'
              \/ good_servers'[pr.realm] # server_list[sidx]
      ]_vars

\* The second candidate of kdcproxy.conf answered the latest request for the
\* realm, and this request starts with it.
C5_Witness ==
    /\ pc = "server"
    /\ sidx = 1
    /\ lookup_res.val = <<K1, K2>>
    /\ worked[pr.realm] = Some(K2)
    /\ server_list = <<K2, K1>>

(* C6: when the remembered server of the realm is not in the candidate     *)
(* list of a request (here the list is not empty and lookup did not        *)
(* raise), reorder_servers does not raise and returns the list unchanged,  *)
(* so the request goes on to its first candidate.                          *)
C6_AbsentRememberedKeepsList ==
    [][ ( /\ pc = "idle"
          /\ lookup_res'.called
          /\ lookup_res'.exc = "none"
          /\ lookup_res'.val # <<>>
          /\ pr'.realm \in DOMAIN good_servers
          /\ good_servers[pr'.realm] \notin Range(lookup_res'.val) )
        => /\ pc' = "server"
           /\ server_list' = lookup_res'.val
      ]_vars

\* How many times x occurs in a list.
Count(seq, x) == Cardinality({i \in 1..Len(seq) : seq[i] = x})

IsPermutation(a, b) ==
    /\ Len(a) = Len(b)
    /\ \A x \in Range(a) \cup Range(b) : Count(a, x) = Count(b, x)

\* The entry of a realm in the map, None when it has none.
Entry(good, realm) == IF realm \in DOMAIN good THEN Some(good[realm]) ELSE None

(* C7: when the server remembered for the realm is in the list,            *)
(* reorder_servers returns it first and then every other server in the     *)
(* original order, a permutation of the list; when nothing is remembered   *)
(* for the realm it returns the list as it is.                             *)
C7_MoveToFront ==
    memo_call.op = "reorder_servers" =>
        LET was == Entry(memo_call.before, memo_call.realm)
            servers == memo_call.servers
            val == memo_call.val
        IN  /\ was = None => (memo_call.exc = "none" /\ val = servers)
            /\ (was # None /\ was[1] \in Range(servers)) =>
                  LET k == Min({i \in 1..Len(servers) : servers[i] = was[1]})
                  IN  /\ memo_call.exc = "none"
                      /\ IsPermutation(val, servers)
                      /\ val[1] = was[1]
                      /\ \A i \in 1..(k - 1) : val[i + 1] = servers[i]
                      /\ \A i \in (k + 1)..Len(servers) : val[i] = servers[i]

\* The last of three candidates is the remembered one and comes first.
C7_Witness ==
    /\ memo_call.op = "reorder_servers"
    /\ memo_call.servers = <<K1, K2, K3>>
    /\ Entry(memo_call.before, memo_call.realm) = Some(K3)
    /\ memo_call.val = <<K3, K1, K2>>

(* C8: mark_broken(realm, server) removes the realm's entry when and only  *)
(* when the entry is `server`, mark_working(realm, server) sets the        *)
(* realm's entry to `server`, and neither changes another realm's entry.   *)
C8_MarkFrame ==
    /\ memo_call.op = "mark_broken" =>
          \A r \in MemoRealms :
              Entry(good_servers, r) =
                  IF r = memo_call.realm
                     /\ Entry(memo_call.before, r) = memo_call.server
                  THEN None
                  ELSE Entry(memo_call.before, r)
    /\ memo_call.op = "mark_working" =>
          \A r \in MemoRealms :
              Entry(good_servers, r) =
                  IF r = memo_call.realm THEN memo_call.server
                  ELSE Entry(memo_call.before, r)

\* Two realms had entries; mark_broken was called for one of them with a
\* server other than its entry, and for the other with its entry.
C8_Witness ==
    /\ memo_call.op = "mark_broken"
    /\ DOMAIN memo_call.before = MemoRealms
    /\ memo_call.before[memo_call.realm] = memo_call.server[1]
    /\ DOMAIN good_servers = MemoRealms \ {memo_call.realm}

(* C9: whatever the interleaving of the reorder_servers, mark_working and  *)
(* mark_broken calls of concurrent requests for one realm, no call raises  *)
(* and every list reorder_servers returns is a permutation of the list it  *)
(* was given.                                                              *)
C9_SafeUnderInterleaving ==
    \A t \in DOMAIN threads :
        /\ threads[t].exc = "none"
        /\ threads[t].pc \in {"serve", "equal", "del"}
              => IsPermutation(threads[t].server_list, Candidates)

(* C10: the reply a request hands to the encoder begins with the 4-byte    *)
(* big-endian length of the message that follows it, whether it came over  *)
(* UDP, over TCP, or from a TCP peer that closed early.                    *)
C10_ReplyLengthPrefixed ==
    reply # None =>
        /\ Len(reply[1]) >= 4
        /\ UnpackU32(SubSeq(reply[1], 1, 4)) = Len(reply[1]) - 4

(* C11: a sendall on a STREAM socket carries the whole request with its    *)
(* 4-byte length prefix, a sendall on a DGRAM socket the request without   *)
(* its first 4 bytes; a datagram received on a DGRAM socket is returned    *)
(* with the 4-byte big-endian length of the datagram before it.            *)
C11_PrefixOnStreamOnly ==
    wire # None =>
        LET io == wire[1]
            dgram == socks[io.sock].type = SOCK.DGRAM
        IN  /\ (io.op = "sendall" /\ ~dgram) => io.data = pr.request
            /\ (io.op = "sendall" /\ dgram) =>
                   /\ PackU32(Len(io.data)) \o io.data = pr.request
                   /\ io.data = SubSeq(pr.request, 5, Len(pr.request))
            /\ (io.op = "recv" /\ dgram) =>
                   reply = Some(PackU32(Len(io.data)) \o io.data)

\* A datagram of one byte has come in on a DGRAM socket, to which the
\* request had gone without its prefix.
C11_Witness ==
    /\ wire # None
    /\ wire[1].op = "recv"
    /\ socks[wire[1].sock].type = SOCK.DGRAM
    /\ socks[wire[1].sock].sent
    /\ wire[1].data = <<7>>
    /\ reply = Some(<<0, 0, 0, 1, 7>>)

\* The chunk is a message on its own: 4 bytes of length and as many bytes
\* as they declare.
IsMessage(chunk) ==
    /\ Len(chunk) >= 4
    /\ UnpackU32(SubSeq(chunk, 1, 4)) + 4 = Len(chunk)

\* The last call of __handle_recv was for this stream socket.
LastRecvOn(sock) ==
    /\ wire # None
    /\ wire[1].op = "recv"
    /\ wire[1].sock = sock
    /\ socks[sock].type = SOCK.STREAM
    /\ received[sock].chunks # <<>>

(* C12: __handle_recv on a STREAM socket raises ValueError and returns no  *)
(* reply when the first 4 bytes received on the socket declare more than   *)
(* MAX_LENGTH bytes, and when more bytes have come in on the socket than   *)
(* its first 4 bytes declare.                                              *)
C12_FramingErrorRaised ==
    \A sock \in DOMAIN received :
        LastRecvOn(sock) =>
            LET all      == Flatten(received[sock].chunks)
                declared == UnpackU32(SubSeq(all, 1, 4))
            IN  (/\ Len(all) >= 4
                 /\ \/ declared > MAX_LENGTH
                    \/ Len(all) > declared + 4)
                => /\ response.exc = "ValueError"
                   /\ reply = None

C14_FastPathIffMessage ==
    \A sock \in DOMAIN received :
        (/\ LastRecvOn(sock)
         /\ Len(received[sock].chunks) = 1
         /\ received[sock].chunks[1] # <<>>)
        => ((/\ reply = Some(received[sock].chunks[1])
             /\ sock \notin DOMAIN read_buffers)
            <=> IsMessage(received[sock].chunks[1]))

(* C15: when the engine goes on to wait on the next address or on the      *)
(* final None, every DGRAM socket that was in rsocks is in wsocks and no   *)
(* longer in rsocks, and every STREAM socket that was in rsocks is still   *)
(* there and not in wsocks; a DGRAM socket that has been sent to and is    *)
(* reported writable is sent the request again; a sendall goes to a socket *)
(* of wsocks only, and never a second time to a STREAM socket.             *)
C15_DgramsResent ==
    [][/\ (pc = "addr" /\ pc' = "await") =>
            \A i \in 1..Len(rsocks) :
                IF socks[rsocks[i]].type = SOCK.DGRAM
                THEN /\ rsocks[i] \in Range(wsocks')
                     /\ rsocks[i] \notin Range(rsocks')
                ELSE /\ rsocks[i] \in Range(rsocks')
                     /\ rsocks[i] \notin Range(wsocks')
       /\ (pc = "loop" /\ pend.w # <<>> /\ wire' # None) =>
            wire'[1] = [op |-> "sendall", sock |-> Head(pend.w),
                        data |-> IF socks[Head(pend.w)].type = SOCK.DGRAM
                                 THEN SubSeq(pr.request, 5, Len(pr.request))
                                 ELSE pr.request,
                        again |-> socks[Head(pend.w)].sent]
       /\ (wire' # None /\ wire'[1].op = "sendall") =>
            /\ wire'[1].sock \in Range(wsocks)
            /\ wire'[1].again => socks[wire'[1].sock].type = SOCK.DGRAM
      ]_vars

\* The request has gone a second time to a DGRAM socket while a STREAM
\* socket it went to once waits in rsocks.
C15_Witness ==
    /\ wire # None
    /\ wire[1].op = "sendall"
    /\ wire[1].again
    /\ socks[wire[1].sock].type = SOCK.DGRAM
    /\ \E i \in 1..Len(rsocks) :
            /\ socks[rsocks[i]].type = SOCK.STREAM
            /\ socks[rsocks[i]].sent

(* C16: of the sockets created for one server, every STREAM socket is      *)
(* created before any DGRAM socket, whatever the families of the server's  *)
(* addresses.                                                              *)
C16_StreamSocketsFirst ==
    \A i, j \in DOMAIN socks :
        (i < j /\ socks[i].server = socks[j].server)
        => ~(socks[i].type = SOCK.DGRAM /\ socks[j].type = SOCK.STREAM)

\* The valid requests among the bodies, with the realm of the envelope and
\* the kind of the inner message.
ValidRequests ==
    { [body |-> Envelope(AS_REQ, Some(<<69, 46, 67>>)),
       realm |-> EXAMPLE_COM, kind |-> "AS"],
      [body |-> Envelope(AS_REQ, Some(<<79>>)),
       realm |-> OtherRealm, kind |-> "AS"],
      [body |-> Envelope(AS_REQ, Some(<<103>>)),
       realm |-> GLOBAL, kind |-> "AS"],
      [body |-> Envelope(KPASSWD_REQ, Some(<<69, 46, 67>>)),
       realm |-> EXAMPLE_COM, kind |-> "KPASSWD"],
      [body |-> Envelope(TGS_REQ, Some(<<79>>)),
       realm |-> OtherRealm, kind |-> "TGS"] }

\* The bytes the call has read from wsgi.input.
BodyRead ==
    SubSeq(env.input, 1,
           IF env.length[1] < Len(env.input) THEN env.length[1]
           ELSE Len(env.input))

(* C17: when the body of a POST is not a valid request, the response is    *)
(* 400 with a reason as text, no lookup has been made and no socket has    *)
(* been created.                                                           *)
C17_InvalidBodyIs400 ==
    (/\ pc = "done"
     /\ env.read
     /\ \A v \in ValidRequests : v.body # BodyRead)
    => /\ response.exc = "none"
       /\ response.status = 400
       /\ response.text # ""
       /\ ~lookup_res.called
       /\ socks = <<>>

(* C18: when the lookup of a request returns no server, the response is    *)
(* 503 "Can't find remote" and no socket has been created; when it returns *)
(* servers and none of them gives a reply, the response is 503 "Remote     *)
(* unavailable".                                                           *)
C18_FailureIs503 ==
    (pc = "done" /\ lookup_res.called /\ lookup_res.exc = "none")
    => /\ lookup_res.val = <<>> =>
            /\ response.exc = "none"
            /\ response.status = 503
            /\ response.text = "Can't find remote"
            /\ socks = <<>>
       /\ (lookup_res.val # <<>> /\ reply = None) =>
            /\ response.exc = "none"
            /\ response.status = 503
            /\ response.text = "Remote unavailable"

(* C19, as stated: a request whose method is not POST gets 405, and its    *)
(* body is not read.                                                       *)
C19_NotPostIs405 ==
    (pc = "done" /\ env.method # "POST")
    => /\ response.status = 405
       /\ ~env.read

(* C19, amended: a request is answered before its body is read and before  *)
(* any lookup with 405 "Method not allowed (<METHOD>)." when its method in *)
(* upper case is not POST, <METHOD> being the method in upper case;        *)
(* otherwise with 411 when there is no Content-Length; otherwise with 413  *)
(* when the Content-Length is greater than 128 KiB; a request with POST    *)
(* and a Content-Length of exactly 128 KiB has its body read.              *)
C19_RejectedBeforeRead ==
    [][(pc = "idle" /\ pc' # "idle") =>
        LET post == env'.method \in {"POST", "post"}
            status == IF ~post THEN 405
                      ELSE IF env'.length = None THEN 411
                      ELSE IF env'.length[1] > 128 * 1024 THEN 413
                      ELSE 0
        IN  IF status # 0
            THEN /\ pc' = "done"
                 /\ response'.exc = "none"
                 /\ response'.status = status
                 /\ status = 405 =>
                        response'.text = "Method not allowed (GET)."
                 /\ status = 411 => response'.text = "Length required."
                 /\ status = 413 =>
                        response'.text = "Request entity too large."
                 /\ ~env'.read
                 /\ ~lookup_res'.called
            ELSE /\ env'.read
                 /\ ~(response'.status \in {405, 411, 413})
      ]_vars

\* A POST with a Content-Length of exactly 128 KiB has been parsed and its
\* realm looked up.
C19_Witness ==
    /\ env.method = "POST"
    /\ env.length = Some(131072)
    /\ env.read
    /\ lookup_res.called

(* C20: for every request that parses, one lookup is made in the call,     *)
(* with the realm of the envelope and with kpasswd true exactly when the   *)
(* inner message is a password change, false for an AS-REQ and a TGS-REQ;  *)
(* no other lookup follows in the call, and the servers the call tries are *)
(* servers of that lookup.                                                 *)
C20_OneLookupByKind ==
    [][/\ (pc' # "idle" /\ env'.read) =>
            \A v \in ValidRequests :
                v.body = BodyRead' =>
                    /\ lookup_res'.called
                    /\ lookup_res'.realm = v.realm
                    /\ lookup_res'.kpasswd = (v.kind = "KPASSWD")
       /\ (pc # "idle" /\ pc' # "idle") => lookup_res' = lookup_res
       /\ pc' \in {"server", "addr", "await", "loop"} =>
            Range(server_list') \subseteq Range(lookup_res'.val)
      ]_vars

\* A password change for EXAMPLE.COM is on its way to a kpasswd server of
\* the realm.
C20_Witness ==
    /\ pc = "await"
    /\ pr.kind = "KPASSWD"
    /\ lookup_res.kpasswd
    /\ lookup_res.realm = EXAMPLE_COM
    /\ server_list = <<P1>>

(* C21: a realm that only a registered adapter declares counts as          *)
(* configured: when neither kdcproxy.conf nor an adapter lists servers for *)
(* it and use_dns is true, MetaResolver.lookup completes without error and *)
(* returns the SRV results; and with an adapter registered, the lookup of  *)
(* a realm declared nowhere (dns_realm_discovery not set) completes        *)
(* without error, returns the empty tuple and issues no SRV query.         *)
C21_AdapterRealmIsConfigured ==
    (/\ Looked
     /\ extra_configs # <<>>
     /\ OwnServers(lookup_res.realm, lookup_res.kpasswd) = <<>>
     /\ AdaptersWithServers(lookup_res.realm, lookup_res.kpasswd) = {}) =>
        /\ (/\ DeclaredInAdapter(lookup_res.realm)
            /\ ~DeclaredInFile(lookup_res.realm)
            /\ UseDns(lookup_res.realm)) =>
               /\ lookup_res.exc = "none"
               /\ lookup_res.val =
                      Unique(DNSResolver_lookup(zone, lookup_res.realm,
                                                lookup_res.kpasswd).val)
        /\ (~Declared(lookup_res.realm) /\ ~DiscoveryOpen) =>
               /\ lookup_res.exc = "none"
               /\ lookup_res.val = <<>>
               /\ lookup_res.queries = <<>>

(* C22: realm_configured(R) is true exactly when the configuration has a   *)
(* section named R or a section *S such that R equals S or R ends with .S  *)
(* (at a label boundary): with a section *EXAMPLE.COM, the realms          *)
(* EXAMPLE.COM, FOO.EXAMPLE.COM and A.B.C.EXAMPLE.COM are configured, and  *)
(* MYEXAMPLE.COM is not unless another section makes it so.                *)
C22_ConfiguredIffSectionOrWildcard ==
    (/\ api_call # None
     /\ api_call[1].op = "realm_configured"
     /\ api_call[1].realm # GLOBAL) =>
        /\ api_call[1].exc = "none"
        /\ api_call[1].val <=> DeclaredInFile(api_call[1].realm)
        /\ Name(1, <<"EXAMPLE", "COM">>) \in DOMAIN cp =>
            /\ api_call[1].realm \in
                   {EXAMPLE_COM, FOO_EXAMPLE_COM,
                    Name(0, <<"A", "B", "C", "EXAMPLE", "COM">>)}
                 => api_call[1].val
            /\ (/\ api_call[1].realm = MYEXAMPLE_COM
                /\ Name(1, <<"COM">>) \notin DOMAIN cp)
                 => ~api_call[1].val

\* With the sections *EXAMPLE.COM and EXAMPLE.COM only, A.B.C.EXAMPLE.COM
\* has been found configured.
C22_Witness ==
    /\ api_call # None
    /\ api_call[1].op = "realm_configured"
    /\ api_call[1].realm = Name(0, <<"A", "B", "C", "EXAMPLE", "COM">>)
    /\ api_call[1].val = TRUE
    /\ DOMAIN cp = {EXAMPLE_COM, Name(1, <<"EXAMPLE", "COM">>)}

C24_NextShorterWildcard ==
    (/\ api_call # None
     /\ api_call[1].op = "param"
     /\ api_call[1].param \in {"use_dns", "silence_port_warn"}
     /\ api_call[1].realm \notin DOMAIN cp \cup {GLOBAL, NoneRealm}) =>
        LET name == api_call[1].param
            matching == {section \in DOMAIN cp :
                            WildcardMatches(section, api_call[1].realm)}
            defining == {section \in matching : name \in DOMAIN cp[section]}
            longer(a, b) == Len(a.labels) > Len(b.labels)
        IN  (/\ Cardinality(matching) >= 2
             /\ \E top \in matching \ defining :
                    \A other \in matching \ {top} : longer(top, other)) =>
                /\ api_call[1].exc = "none"
                /\ \A section \in defining :
                       (\A other \in defining \ {section} :
                            longer(section, other))
                         => api_call[1].val = getboolean(cp[section][name])
                /\ defining = {} =>
                       api_call[1].val =
                           IF GLOBAL \in DOMAIN cp /\ name \in DOMAIN cp[GLOBAL]
                           THEN getboolean(cp[GLOBAL][name])
                           ELSE GENERAL_PARAMS[name]

\* [*EXAMPLE.COM] does not set use_dns, [*COM] sets it off and [global]
\* sets it to true: use_dns of FOO.EXAMPLE.COM is false.
C24_Witness ==
    /\ api_call # None
    /\ api_call[1].op = "param"
    /\ api_call[1].realm = FOO_EXAMPLE_COM
    /\ api_call[1].param = "use_dns"
    /\ api_call[1].val = FALSE
    /\ DOMAIN cp = {Name(1, <<"EXAMPLE", "COM">>), Name(1, <<"COM">>), GLOBAL}
    /\ "use_dns" \notin DOMAIN cp[Name(1, <<"EXAMPLE", "COM">>)]
    /\ "use_dns" \in DOMAIN cp[GLOBAL]
    /\ getboolean(cp[GLOBAL]["use_dns"])

(* C25: KDCProxyConfig.lookup(realm, kpasswd) returns exactly the URIs     *)
(* listed under the kpasswd key (kpasswd true) or the kerberos key         *)
(* (kpasswd false) of the section named exactly realm, in file order, and  *)
(* the empty tuple otherwise; kerberos and kpasswd values written in a     *)
(* wildcard section or in the global section contribute servers to no      *)
(* realm.                                                                  *)
C25_ServersOfExactSectionOnly ==
    (/\ api_call # None
     /\ api_call[1].op = "lookup"
     /\ api_call[1].realm # GLOBAL) =>
        LET realm == api_call[1].realm
            key == IF api_call[1].kpasswd THEN "kpasswd" ELSE "kerberos"
        IN  /\ api_call[1].exc = "none"
            /\ api_call[1].val =
                   IF realm \in DOMAIN cp /\ key \in DOMAIN cp[realm]
                   THEN cp[realm][key] ELSE <<>>
            /\ realm \notin DOMAIN cp => api_call[1].val = <<>>

\* [*EXAMPLE.COM] and [global] both list kerberos servers, and the lookup
\* of FOO.EXAMPLE.COM has returned none.
C25_Witness ==
    /\ api_call # None
    /\ api_call[1].op = "lookup"
    /\ api_call[1].realm = FOO_EXAMPLE_COM
    /\ ~api_call[1].kpasswd
    /\ api_call[1].val = <<>>
    /\ Name(1, <<"EXAMPLE", "COM">>) \in DOMAIN cp
    /\ "kerberos" \in DOMAIN cp[Name(1, <<"EXAMPLE", "COM">>)]
    /\ GLOBAL \in DOMAIN cp
    /\ "kerberos" \in DOMAIN cp[GLOBAL]

(* C26: lookup, realm_configured and param of KDCProxyConfig each raise    *)
(* ValueError when called with the realm name "global", whatever the       *)
(* configuration and the other arguments, and the configuration is the     *)
(* same after the call as before it.                                       *)
C26_GlobalIsRejected ==
    [][(/\ api_call' # None
        /\ api_call'[1].op \in {"lookup", "realm_configured", "param"}
        /\ api_call'[1].realm = GLOBAL) =>
           /\ api_call'[1].exc = "ValueError"
           /\ config' = config
           /\ cp' = cp
      ]_vars

\* param("global", "use_dns") has raised although [global] sets use_dns.
C26_Witness ==
    /\ api_call # None
    /\ api_call[1].op = "param"
    /\ api_call[1].realm = GLOBAL
    /\ api_call[1].param = "use_dns"
    /\ api_call[1].exc = "ValueError"
    /\ GLOBAL \in DOMAIN config
    /\ "use_dns" \in DOMAIN config[GLOBAL]

(* C27: DNSResolver.lookup emits all URIs from the tcp SRV answer before   *)
(* any from the udp answer; within each answer the records are in          *)
(* ascending priority, records of equal priority keep the order of the     *)
(* answer, and two answers that differ only in SRV weights give the same   *)
(* URI sequence.                                                           *)
C27_TcpThenUdpByPriority ==
    (api_call # None /\ api_call[1].op = "dns") =>
        LET service == IF api_call[1].kpasswd THEN SRV_KPWD ELSE SRV_KRB
            answer(protocol) ==
                IF zone[service][protocol] # <<>> \/ ~api_call[1].kpasswd
                THEN zone[service][protocol]
                ELSE zone[SRV_KPWD_ADM][protocol]
            \* the position of the i-th record of the answer in the output
            rank(a, i) ==
                Cardinality({j \in 1..Len(a) : a[j].priority < a[i].priority})
                + Cardinality({j \in 1..i : a[j].priority = a[i].priority})
            ordered(a) ==
                [k \in 1..Len(a) |->
                    LET i == CHOOSE i \in 1..Len(a) : rank(a, i) = k
                    IN  URI(<<service>>, a[i].target, a[i].port)]
            reweighted ==
                [s \in DOMAIN zone |->
                    [p \in {"tcp", "udp"} |->
                        [i \in 1..Len(zone[s][p]) |->
                            [zone[s][p][i] EXCEPT !.weight = 100 - @]]]]
        IN  /\ api_call[1].val = ordered(answer("tcp")) \o ordered(answer("udp"))
            /\ DNSResolver_lookup(reweighted, api_call[1].realm,
                                  api_call[1].kpasswd).val = api_call[1].val

\* The tcp answer k1 (10), k2 (10), k3 (0) and the udp answer k1 (20),
\* k2 (10) have given k3, k1, k2, k2, k1.
C27_Witness ==
    /\ api_call # None
    /\ api_call[1].op = "dns"
    /\ ~api_call[1].kpasswd
    /\ Len(zone[SRV_KRB]["tcp"]) = 3
    /\ [i \in 1..5 |-> api_call[1].val[i].host] = <<"k3", "k1", "k2", "k2", "k1">>

(* C28: for a kpasswd lookup, DNSResolver queries                          *)
(* _kerberos-adm._{protocol}.{realm} for a protocol exactly when the       *)
(* _kpasswd._{protocol}.{realm} query returned no records, and every       *)
(* emitted URI has the scheme kpasswd, never the name of the fallback; for *)
(* a kerberos lookup no fallback query is issued.                          *)
C28_FallbackToKerberosAdm ==
    (api_call # None /\ api_call[1].op = "dns") =>
        LET realm == api_call[1].realm
            asked == Range(api_call[1].queries)
        IN  /\ api_call[1].kpasswd =>
                /\ \A protocol \in {"tcp", "udp"} :
                       /\ Query(SRV_KPWD, protocol, realm) \in asked
                       /\ Query(SRV_KPWD_ADM, protocol, realm) \in asked
                            <=> zone[SRV_KPWD][protocol] = <<>>
                /\ \A uri \in Range(api_call[1].val) : uri.scheme = <<"kpasswd">>
            /\ ~api_call[1].kpasswd =>
                /\ \A query \in asked : query.service = SRV_KRB
                /\ \A uri \in Range(api_call[1].val) : uri.scheme = <<"kerberos">>

\* A kpasswd lookup has found records under _kpasswd._tcp, none under
\* _kpasswd._udp, and has emitted the records of _kerberos-adm._udp as
\* kpasswd URIs.
C28_Witness ==
    /\ api_call # None
    /\ api_call[1].op = "dns"
    /\ api_call[1].kpasswd
    /\ zone[SRV_KPWD]["tcp"] # <<>>
    /\ zone[SRV_KPWD]["udp"] = <<>>
    /\ Len(api_call[1].queries) = 3
    /\ Len(api_call[1].val) = 4
    /\ api_call[1].val[4] = URI(<<"kpasswd">>, "p2", 749)

(* C29: codec.decode rejects every envelope whose inner message's first 4  *)
(* bytes, read as a big-endian length L, do not satisfy                    *)
(* L + 4 = len(message); so every ProxyRequest that is constructed         *)
(* satisfies u32_be(request[0..4]) + 4 = len(request), and its request     *)
(* field is the inner message, prefix included.                            *)
C29_RequestIsFramedMessage ==
    (api_call # None /\ api_call[1].op = "decode") =>
        /\ \A message \in Messages \cup {AS_REQ, TGS_REQ, KPASSWD_REQ,
                                        <<0, 0, 0>>, <<>>} :
               (/\ api_call[1].data = Envelope(message, Some(<<69, 46, 67>>))
                /\ ~IsMessage(message))
                 => api_call[1].exc # "none"
        /\ api_call[1].exc = "none" =>
               /\ IsMessage(api_call[1].val.request)
               /\ \E realm \in {<<69, 46, 67>>, <<79>>, <<103>>} :
                      api_call[1].data =
                          Envelope(api_call[1].val.request, Some(realm))

\* A TGS-REQ of 4 bytes under a prefix that announces 5 has been rejected
\* for its length.
C29_Witness ==
    /\ api_call # None
    /\ api_call[1].op = "decode"
    /\ api_call[1].data =
           Envelope(PackU32(5) \o <<108, 2, 48, 0>>, Some(<<69, 46, 67>>))
    /\ api_call[1].exc = "ParsingError"
    /\ api_call[1].val = "Invalid request length."

(* C30, as claimed: codec.decode attempts, in order, AS-REQ at offset 4,   *)
(* TGS-REQ at offset 4, then KPASSWD-REQ, and returns the first that       *)
(* succeeds; a well-framed message is classified AS when its outer tag is  *)
(* APPLICATION 10, TGS when it is APPLICATION 12, KPASSWD when the         *)
(* password-change framing validates, and is rejected when none applies.   *)
C30_AsThenTgsThenKpasswd ==
    (api_call # None /\ api_call[1].op = "decode") =>
        LET order == <<"AS", "TGS", "KPASSWD">>
            tried == api_call[1].tried
        IN  /\ \E n \in 0..3 : tried = SubSeq(order, 1, n)
            /\ api_call[1].exc = "none" =>
                   api_call[1].val.kind = tried[Len(tried)]

(* C30, as the code has it: codec.decode attempts, in order, TGS-REQ at    *)
(* offset 4, AS-REQ at offset 4, then KPASSWD-REQ, and returns the first   *)
(* that succeeds; a well-framed message that is accepted is classified AS  *)
(* exactly when its outer tag is APPLICATION 10 (byte 106), TGS exactly    *)
(* when it is APPLICATION 12 (byte 108), and KPASSWD otherwise, its        *)
(* password-change framing being valid; the ticket requests and password   *)
(* changes of the model are accepted as such; a well-framed message with   *)
(* neither tag and without valid password-change framing is rejected.      *)
C30_TgsThenAsThenKpasswd ==
    (api_call # None /\ api_call[1].op = "decode") =>
        LET order == <<"TGS", "AS", "KPASSWD">>
            tried == api_call[1].tried
            accepted == api_call[1].exc = "none"
            fields(m) ==
                /\ Len(m) >= 10
                /\ m[5] * 256 + m[6] = Len(m) - 4
                /\ m[7] * 256 + m[8] \in {1, 65408}
                /\ m[9] * 256 + m[10] <= Len(m) - 10
            sent(message) ==
                api_call[1].data = Envelope(message, Some(<<69, 46, 67>>))
        IN  /\ \E n \in 0..3 : tried = SubSeq(order, 1, n)
            /\ accepted =>
                LET request == api_call[1].val.request
                    kind == api_call[1].val.kind
                IN  /\ kind = tried[Len(tried)]
                    /\ kind = "AS" <=> request[5] = 106
                    /\ kind = "TGS" <=> request[5] = 108
                    /\ kind = "KPASSWD" <=> request[5] \notin {106, 108}
                    /\ kind = "KPASSWD" => fields(request)
            /\ sent(AS_REQ) => accepted /\ api_call[1].val.kind = "AS"
            /\ sent(TGS_REQ) => accepted /\ api_call[1].val.kind = "TGS"
            /\ \A version \in {<<0, 1>>, <<255, 128>>} :
                   sent(PackU32(14) \o <<0, 14>> \o version
                        \o <<0, 4, 110, 2, 48, 0, 117, 2, 48, 0>>)
                     => accepted /\ api_call[1].val.kind = "KPASSWD"
            /\ \A message \in Messages :
                   (/\ sent(message)
                    /\ IsMessage(message)
                    /\ Len(message) > 4 => message[5] \notin {106, 108}
                    /\ ~fields(message))
                     => /\ api_call[1].exc = "ParsingError"
                        /\ tried = order

\* An AS-REQ has been accepted as such after the attempt to read it as a
\* TGS-REQ.
C30_Witness ==
    /\ api_call # None
    /\ api_call[1].op = "decode"
    /\ api_call[1].data = Envelope(AS_REQ, Some(<<69, 46, 67>>))
    /\ api_call[1].exc = "none"
    /\ api_call[1].val.kind = "AS"
    /\ api_call[1].tried = <<"TGS", "AS">>

(* C31: a message is accepted as a KPASSWD-REQ only if                     *)
(* u16_be(message[4..6]) = len(message) - 4, the version                   *)
(* u16_be(message[6..8]) is 0x0001 or 0xff80, ap_len = u16_be(message[8..10]) *)
(* is at most len(message) - 10, message[10 .. 10+ap_len] parses as an     *)
(* AP-REQ with no trailing bytes and message[10+ap_len ..] parses as a     *)
(* KRB-PRIV with no trailing bytes; the accepted request carries that      *)
(* version.                                                                *)
C31_KpasswdOnlyIfValid ==
    (/\ api_call # None
     /\ api_call[1].op = "decode"
     /\ api_call[1].exc = "none"
     /\ api_call[1].val.kind = "KPASSWD")
    => LET message == api_call[1].val.request
           n == Len(message)
           ap_len == message[9] * 256 + message[10]
           apreq == Explicit(110, 48, SubSeq(message, 11, 10 + ap_len))
           krbpriv == Explicit(117, 48, SubSeq(message, 11 + ap_len, n))
       IN  /\ n >= 10
           /\ message[5] * 256 + message[6] = n - 4
           /\ message[7] * 256 + message[8] \in {1, 65408}
           /\ ap_len <= n - 10
           /\ apreq.ok /\ apreq.rest = <<>>
           /\ krbpriv.ok /\ krbpriv.rest = <<>>
           /\ api_call[1].val.version = message[7] * 256 + message[8]

(* C32: for the byte strings b of the model, the envelope codec.encode(b)  *)
(* decodes as an envelope with message b and without realm and flags; and  *)
(* codec.decode of the re-encoded inner message of a request that decodes  *)
(* gives a request of the same variant.                                    *)
C32_EncodeRoundTrip ==
    (api_call # None /\ api_call[1].op = "decode") =>
        \A b \in {AS_REQ, TGS_REQ, KPASSWD_REQ} :
            api_call[1].data = codec_encode(b) =>
                LET outer == ProxyRequest_parse(Envelope(b, Some(<<69, 46, 67>>)))
                    envelope == ProxyMessage_decode(codec_encode(b))
                IN  /\ envelope.exc = "none"
                    /\ envelope.val.message = b
                    /\ envelope.val.realm = None
                    /\ envelope.val.err = <<>>
                    /\ outer.exc = "none"
                    /\ outer.val.request = b
                    /\ api_call[1].exc = "none"
                    /\ api_call[1].val.kind = outer.val.kind

(* C33: when the sendall on a socket of the loop over the writable sockets *)
(* fails, whether with EHOSTUNREACH, with another error or with an error   *)
(* that carries no errno, the socket is in neither wsocks nor rsocks       *)
(* afterwards and the await loop goes on with the remaining sockets: no    *)
(* exception leaves the handler and the send is not tried again on the     *)
(* socket.                                                                 *)
C33_FailedSendDropsSocket ==
    [][(pc = "loop" /\ pend.w # <<>> /\ wire' = None) =>
            /\ Head(pend.w) \notin Range(wsocks')
            /\ Head(pend.w) \notin Range(rsocks')
            /\ pc' \in {"await", "loop"}
            /\ response' = response
      ]_vars

(* C34, as claimed: within one request the servers are tried in the order  *)
(* of the reordered list: a socket is created only for the address at hand *)
(* of the server at hand, the addresses taken in the order of the sorted   *)
(* list, and each creation is followed by one wait; the wait that follows  *)
(* the last address creates no socket; the next server is taken up only    *)
(* when the server at hand was skipped or its final wait has ended without *)
(* a reply; once there is a reply, no socket is created and no wait is     *)
(* started.                                                                *)
C34_EachSocketThenOneWait ==
    [][/\ Len(socks') > Len(socks) =>
            /\ pc = "addr" /\ aidx <= Len(addrs)
            /\ Len(socks') = Len(socks) + 1
            /\ socks'[Len(socks')].server = sidx
            /\ socks'[Len(socks')].type = addrs[aidx].socktype
            /\ \A i \in 1..Len(socks) : socks[i].server <= sidx
            /\ reply = None
            /\ pc' = "await"
       /\ (pc # "await" /\ pc' = "await") =>
            /\ pc \in {"addr", "loop"}
            /\ pc = "addr" =>
                 \/ Len(socks') = Len(socks) + 1
                 \/ aidx = Len(addrs) + 1 /\ socks' = socks
            /\ reply = None
       /\ (pc \in {"addr", "await", "loop"} /\ pc' \in {"addr", "server"}) =>
            /\ reply' = None
            /\ IF aidx <= Len(addrs)
               THEN pc' = "addr" /\ aidx' = aidx + 1 /\ sidx' = sidx
               ELSE pc' = "server" /\ sidx' = sidx + 1
       /\ (pc = "server" /\ pc' # "done") =>
            \/ sidx' = sidx + 1 /\ pc' = "server" /\ socks' = socks
            \/ sidx' = sidx /\ pc' = "addr" /\ aidx' = 1 /\ socks' = socks
       /\ reply' # None => pc' = "done"
       /\ pc = "done" => pc' = "idle" /\ socks' = <<>>
      ]_vars

(* C34, as the code has it: the same, except that a socket whose connect   *)
(* fails at once is closed and followed by the next address without a      *)
(* wait; every other socket created is followed by one wait.               *)
C34_EachConnectingSocketThenOneWait ==
    [][/\ Len(socks') > Len(socks) =>
            /\ pc = "addr" /\ aidx <= Len(addrs)
            /\ Len(socks') = Len(socks) + 1
            /\ socks'[Len(socks')].server = sidx
            /\ socks'[Len(socks')].type = addrs[aidx].socktype
            /\ \A i \in 1..Len(socks) : socks[i].server <= sidx
            /\ reply = None
            /\ IF socks'[Len(socks')].open
               THEN pc' = "await" /\ Len(socks') \in Range(wsocks')
               ELSE /\ pc' = "addr" /\ aidx' = aidx + 1
                    /\ Len(socks') \notin Range(wsocks' \o rsocks')
       /\ (pc # "await" /\ pc' = "await") =>
            /\ pc \in {"addr", "loop"}
            /\ pc = "addr" =>
                 \/ Len(socks') = Len(socks) + 1
                 \/ aidx = Len(addrs) + 1 /\ socks' = socks
            /\ reply = None
       /\ (pc \in {"addr", "await", "loop"} /\ pc' \in {"addr", "server"}) =>
            /\ reply' = None
            /\ IF aidx <= Len(addrs)
               THEN pc' = "addr" /\ aidx' = aidx + 1 /\ sidx' = sidx
               ELSE pc' = "server" /\ sidx' = sidx + 1
       /\ (pc = "server" /\ pc' # "done") =>
            \/ sidx' = sidx + 1 /\ pc' = "server" /\ socks' = socks
            \/ sidx' = sidx /\ pc' = "addr" /\ aidx' = 1 /\ socks' = socks
       /\ reply' # None => pc' = "done"
       /\ pc = "done" => pc' = "idle" /\ socks' = <<>>
      ]_vars

\* The final wait of the second candidate is under way: the first
\* candidate's sockets were created before, one of them closed for a
\* connect that failed at once, and its final wait ended without a reply.
C34_Witness ==
    /\ pc = "await"
    /\ sidx = 2
    /\ aidx = Len(addrs) + 1
    /\ Len(socks) = 3
    /\ socks[1].server = 1 /\ ~socks[1].open
    /\ socks[2].server = 1
    /\ socks[3].server = 2
    /\ reply = None

(* C35: every call of the await loop ends by returning: the first complete *)
(* reply, or None when the deadline has passed or both socket lists are    *)
(* empty, whatever the readiness events, sockets whose send or recv fails  *)
(* included; no exception leaves the loop.                                 *)
C35_AwaitReturnsReplyOrNone ==
    [][(pc \in {"await", "loop"} /\ pc' \notin {"await", "loop"}) =>
            /\ response'.exc = "none"
            /\ \/ reply' # None /\ pc' = "done" /\ response'.status = 200
               \/ reply' = None /\ pc' \in {"addr", "server"}
      ]_vars

C37_WorkingIsReplyingServer ==
    [][(reply = None /\ reply' # None /\ wire' # None) =>
        /\ pr.realm \in DOMAIN good_servers'
        /\ good_servers'[pr.realm] = server_list[socks[wire'[1].sock].server]
      ]_vars

(* C38: the bytes buffered for a STREAM socket are kept, and only added    *)
(* to, for as long as the socket stays in rsocks and the request runs: a   *)
(* part received during one address attempt is still buffered in the next. *)
C38_BufferKeptWhileReading ==
    [][\A s \in DOMAIN read_buffers :
          (s \in Range(rsocks') /\ pc' \in {"server", "addr", "await", "loop"}) =>
              /\ s \in DOMAIN read_buffers'
              /\ Len(read_buffers'[s]) >= Len(read_buffers[s])
              /\ SubSeq(read_buffers'[s], 1, Len(read_buffers[s]))
                     = read_buffers[s]
      ]_vars

(* C39: a request that has ended has called start_response with one of     *)
(* the statuses 200, 400, 405, 411, 413, 503; no exception other than the  *)
(* handler's own HTTP outcome has left Application.__call__.               *)
C39_AlwaysOneHttpOutcome ==
    pc = "done" =>
        /\ response.exc = "none"
        /\ response.status \in {200, 400, 405, 411, 413, 503}

(* C40: a candidate that is skipped, because its scheme is not kerberos or *)
(* kpasswd, or its transport is neither tcp nor udp, or its host name does *)
(* not resolve, creates no socket and leaves the working-server memo as it *)
(* is, and the engine goes on with the next candidate; a candidate with an *)
(* unsupported scheme is always skipped; after the last candidate, every   *)
(* one skipped, the response is 503 "Remote unavailable".                  *)
C40_SkippedServerLeavesNoTrace ==
    [][pc = "server" =>
        /\ sidx <= Len(server_list) =>
              /\ (\/ server_list[sidx].scheme[1] \notin {"kerberos", "kpasswd"}
                  \/ /\ Len(server_list[sidx].scheme) > 1
                     /\ server_list[sidx].scheme[2] \notin {"tcp", "udp"})
                     => pc' # "addr"
              /\ pc' # "addr" =>
                    /\ pc' = "server"
                    /\ sidx' = sidx + 1
                    /\ server_list' = server_list
                    /\ socks' = socks
                    /\ wsocks' = wsocks
                    /\ rsocks' = rsocks
                    /\ good_servers' = good_servers
                    /\ response' = response
        /\ (sidx > Len(server_list) /\ socks = <<>>) =>
              /\ pc' = "done"
              /\ response'.exc = "none"
              /\ response'.status = 503
              /\ response'.text = "Remote unavailable"
              /\ good_servers' = good_servers
      ]_vars

\* The remembered working server did not resolve, the two other candidates
\* have unsupported schemes: no socket, the memo as it was, 503.
C40_Witness ==
    /\ pc = "done"
    /\ Len(server_list) = 3
    /\ socks = <<>>
    /\ pr.realm \in DOMAIN good_servers
    /\ good_servers[pr.realm] = server_list[1]
    /\ server_list[2].scheme = <<"http">>
    /\ server_list[3].scheme = <<"kerberos", "sctp">>
    /\ response.status = 503
    /\ response.text = "Remote unavailable"

====
